---- MODULE Spec2Model ----
(***************************************************************************)
(* Resilient retrieval and recovery engine of eu-oils-bot-starter:        *)
(*   - SelectorPolicy  (tools/phase1/selector_wizard.py, maybe_promote)   *)
(*   - ArchiveLadder   (src/eopt/archives.py, try_archives_for)           *)
(*   - BlockerClassifier (phase1_oilbot.py, should_flip_to_archive)       *)
(*   - PaginationTracker (tools/phase1/paging.py, PagerTracker)           *)
(*   - AH / Jumbo page walks and run_one (phase1_oilbot.py)               *)
(*   - RateLimitedGateway (src/eopt/net_gateway.py, NetGateway)            *)
(*   - StabilitySampler (finder/core/cdx.py, summarize_archives)           *)
(*   - the operator-unlock cooldown stamp over successive runs             *)
(*   - the policy file under two concurrent maybe_promote calls            *)
(*   - the URL normalizers (finder/core/canonicalize.py, cdx.py)           *)
(* Each component has its own specification over the shared variables;    *)
(* the variables of the other components stay at their initial values.    *)
(*                                                                         *)
(* Rates (price_ok_rate, qty_ok_rate, dup_rate) are whole percents, and    *)
(* a shadow score is kept in units of 1/200 (0.5*p + 0.5*q == (p+q)/200),  *)
(* so the arithmetic of the percent grid is exact.                         *)
(***************************************************************************)
EXTENDS Integers, Sequences, FiniteSets, TLC

VARIABLES
    \* ---- SelectorPolicy: policy/<code>.json and the last maybe_promote call
    policy,         \* [active, candidates]: the persisted policy file
    pol_round,      \* number of maybe_promote calls so far
    pol_winner,     \* id of the candidate returned by the last call
    pol_best,       \* best qualifying challenger of the last call (None if none)
    pol_prev_best,  \* best qualifying challenger of the call before
    pol_baseline,   \* baseline id passed to the last call
    pol_failed      \* the challengers of the last call that had metrics which
                    \* miss a gate or the margin over the baseline

polVars == <<policy, pol_round, pol_winner, pol_best, pol_prev_best, pol_baseline, pol_failed>>

VARIABLES
    \* ---- ArchiveLadder: one try_archives_for call
    lad_pc,         \* "idle", "loop" (inside the for loop), "done" (returned)
    lad_order,      \* order[: max(1, limit)]: the providers the loop iterates over
    lad_full,       \* the effective order before the limit is applied
    lad_outcome,    \* what each provider's archive holds for the target URL
    lad_i,          \* index of the next provider of the loop
    lad_attempts,   \* attempts: the ArchiveResult of every call made, in order
    lad_best,       \* the returned best result (NoResult for None)
    lad_args,       \* priority and prefer_archive arguments, retailers.csv values
    lad_html        \* what archive_fetch_html returned (NoResult before it returns)

ladVars == <<lad_pc, lad_order, lad_full, lad_outcome, lad_i, lad_attempts, lad_best,
             lad_args, lad_html>>

VARIABLES
    \* ---- BlockerClassifier: the arguments and result of the last
    \*      should_flip_to_archive call
    flip_health,    \* the health dict fields the function reads
    flip_cards,     \* card_count
    flip_jsonld,    \* jsonld_count
    flip_verdict    \* the returned reason ("unset" before the first call)

flipVars == <<flip_health, flip_cards, flip_jsonld, flip_verdict>>

VARIABLES
    \* ---- PaginationTracker: one PagerTracker object and its call history
    pt_seen,        \* self.seen
    pt_stalls,      \* self.stalls
    pt_min_growth,  \* self.min_growth
    pt_max_stalls,  \* self.max_stalls
    pt_rets,        \* what each add_batch call returned, in call order
    pt_grew,        \* for each call: did the batch hold at least min_growth
                    \* non-empty keys that were not in seen before the call
    pt_fed          \* every non-empty key passed to add_batch so far

ptVars == <<pt_seen, pt_stalls, pt_min_growth, pt_max_stalls, pt_rets, pt_grew, pt_fed>>

VARIABLES
    \* ---- one AH or Jumbo page walk (_ah_paginate_collect, _jumbo_paginate_collect)
    walk_kind,      \* "ah" or "jumbo"
    walk_pc,        \* "idle", "first" (AH page 1), "loop", "returned", "raised"
    walk_guard_ok,  \* does the request guard allow the category URL and its pages
    walk_max_pages, \* max_pages
    walk_pn,        \* AH: pn, the next page number; Jumbo: iterations done
    walk_rows,      \* rows, as the product keys of the rows in order
    walk_seen,      \* tracker.seen
    walk_stalls,    \* tracker.stalls
    walk_batches,   \* number of tracker.add_batch calls made
    walk_navs       \* number of listing pages navigated (page.goto calls)

walkVars == <<walk_kind, walk_pc, walk_guard_ok, walk_max_pages, walk_pn,
              walk_rows, walk_seen, walk_stalls, walk_batches, walk_navs>>

VARIABLES
    \* ---- one run_one call
    run_pc,             \* position in run_one; "returned" and "raised" are final
    run_cfg,            \* the Retailer and the keyword arguments of the call
    run_stamp,          \* policy/<code>_last_unlock.txt is younger than 12 hours
    run_recent_unlock,  \* recent_unlock
    run_health,         \* health: auth_redirect, cf_detected, why_flip
    run_cards,          \* card_count
    run_jsonld,         \* jsonld_count
    run_page_open,      \* the page object held by run_one is still open
    run_batch,          \* batch_rows
    run_all,            \* all_rows
    run_acc,            \* every row accumulated so far, before deduplication
    run_blocker,        \* the value of blocker at the unlock decision
    run_verdict,        \* should_flip_to_archive at the unlock decision ("unset" before)
    run_log,            \* the recovery collaborators called so far, in order
    run_ret,            \* which return statement ended the run ("none" before)
    run_rows            \* the "rows" of the returned record

runVars == <<run_pc, run_cfg, run_stamp, run_recent_unlock, run_health, run_cards,
             run_jsonld, run_page_open, run_batch, run_all, run_acc, run_blocker, run_verdict,
             run_log, run_ret, run_rows>>

VARIABLES
    \* ---- one NetGateway object, its callers and the requests it has issued
    gw_up,          \* the NetGateway object has been constructed
    gw_respect,     \* GatewayPolicy.respect_robots
    gw_robots,      \* per origin: what reading its robots.txt yields
    gw_now,         \* time.monotonic(), in ticks of one sleep increment
    gw_tokens,      \* _Bucket.tokens, in units of 1/TokenScale token
    gw_last,        \* _Bucket.last
    gw_cache,       \* _robots_cache: origin -> state of its RobotFileParser
    gw_c,           \* per caller: position in get_text, arguments, meta, result
    gw_calls,       \* get_text calls made so far
    gw_fetches,     \* per origin: how many times robots.txt was read
    gw_grant_at,    \* per tick: tokens granted by take() at that tick
    gw_req_at,      \* per tick: requests issued to target URLs at that tick
    gw_flags        \* what the calls made so far have shown (see GwFlags0)

gwVars == <<gw_up, gw_respect, gw_robots, gw_now, gw_tokens, gw_last, gw_cache, gw_c, gw_calls, gw_fetches,
            gw_grant_at, gw_req_at, gw_flags>>

VARIABLES
    \* ---- StabilitySampler: one summarize_archives call
    cdx_pc,         \* "idle", "loop" (inside the for loop), "done" (returned)
    cdx_url,        \* the url argument
    cdx_cands,      \* the URLs _parent_urls(url) yields, in order
    cdx_i,          \* index of the next candidate
    cdx_log,        \* every candidate queried so far with the counts it gave
    cdx_result      \* the returned dict

cdxVars == <<cdx_pc, cdx_url, cdx_cands, cdx_i, cdx_log, cdx_result>>

VARIABLES
    \* ---- the operator-unlock stamp of one retailer over successive runs
    cd_now,         \* time.time(), in ticks of TickHours hours
    cd_stamp,       \* st_mtime of the stamp file (NoStamp while there is none)
    cd_pc,          \* "idle" between runs, "decide" between the cooldown read
                    \* and the unlock decision of a run
    cd_blocker,     \* blocker of the run under way
    cd_recent,      \* recent_unlock of the run under way
    cd_read,        \* the run under way read the stamp without an error
    cd_unlocks      \* the operator unlocks started so far: when, whether the
                    \* stamp was written, whether the stamp had been read

cdVars == <<cd_now, cd_stamp, cd_pc, cd_blocker, cd_recent, cd_read, cd_unlocks>>

VARIABLES
    \* ---- policy/<code>.json of one retailer and two maybe_promote calls on it
    ps_up,          \* the calls have been set up
    ps_file,        \* what the policy file holds now
    ps_file0,       \* what it held when the calls were set up
    ps_w            \* per worker: position in maybe_promote, arguments, the
                    \* policy it loaded, the policy it is saving

psVars == <<ps_up, ps_file, ps_file0, ps_w>>

VARIABLES
    \* ---- one URL put through a normalizer twice
    cu_pc,          \* "idle", "picked", "once", "twice"
    cu_fn,          \* "clean_url" or "_strip_query_and_fragment"
    cu_url,         \* the URL text given
    cu_once,        \* the normalizer's result on cu_url
    cu_twice        \* the normalizer's result on cu_once

cuVars == <<cu_pc, cu_fn, cu_url, cu_once, cu_twice>>

vars == <<polVars, ladVars, flipVars, ptVars, walkVars, runVars, gwVars, cdxVars,
          cdVars, psVars, cuVars>>

\* the variables each component leaves alone
notPol == <<ladVars, flipVars, ptVars, walkVars, runVars, gwVars, cdxVars, cdVars,
            psVars, cuVars>>
notLad == <<polVars, flipVars, ptVars, walkVars, runVars, gwVars, cdxVars, cdVars,
            psVars, cuVars>>
notFlip == <<polVars, ladVars, ptVars, walkVars, runVars, gwVars, cdxVars, cdVars,
             psVars, cuVars>>
notPt == <<polVars, ladVars, flipVars, walkVars, runVars, gwVars, cdxVars, cdVars,
           psVars, cuVars>>
notWalk == <<polVars, ladVars, flipVars, ptVars, runVars, gwVars, cdxVars, cdVars,
             psVars, cuVars>>
notRun == <<polVars, ladVars, flipVars, ptVars, walkVars, gwVars, cdxVars, cdVars,
            psVars, cuVars>>
notGw == <<polVars, ladVars, flipVars, ptVars, walkVars, runVars, cdxVars, cdVars,
           psVars, cuVars>>
notCdx == <<polVars, ladVars, flipVars, ptVars, walkVars, runVars, gwVars, cdVars,
            psVars, cuVars>>
notCd == <<polVars, ladVars, flipVars, ptVars, walkVars, runVars, gwVars, cdxVars,
           psVars, cuVars>>
notPs == <<polVars, ladVars, flipVars, ptVars, walkVars, runVars, gwVars, cdxVars,
           cdVars, cuVars>>
notCu == <<polVars, ladVars, flipVars, ptVars, walkVars, runVars, gwVars, cdxVars,
           cdVars, psVars>>

None == "None"

RangeOf(s) == {s[i] : i \in 1..Len(s)}

(***************************************************************************)
(* SelectorPolicy                                                          *)
(***************************************************************************)
MaxRounds == 3

PROMOTE_MARGIN == 10
REQUIRED_WINS == 2

BaselineIds == {"base", "base2"}
ChallengerIds == {"c1", "c2"}
ChallengerLists == {<<>>, <<"c1">>, <<"c1", "c2">>, <<"c2", "c1">>}

\* EvalMetrics values a round may observe (percent grid)
Metrics(c, p, q, d) == [cards |-> c, price_ok_rate |-> p, qty_ok_rate |-> q, dup_rate |-> d]
MetricsSet ==
    { Metrics(5, 90, 90, 20),   \* passes the gates, score 0.90
      Metrics(5, 70, 90, 20),   \* passes the gates, score 0.80
      Metrics(5, 70, 50, 20),   \* passes the gates (all at their thresholds), score 0.60
      Metrics(4, 90, 90, 20),   \* too few cards
      Metrics(5, 60, 90, 20),   \* price-ok rate below 0.70
      Metrics(5, 90, 40, 20),   \* quantity-ok rate below 0.50
      Metrics(5, 90, 90, 30) }  \* duplicate rate above 0.20
BaselineMetricsSet ==
    { Metrics(5, 60, 50, 20),   \* score 0.55
      Metrics(5, 70, 50, 20),   \* score 0.60
      Metrics(5, 70, 90, 20) }  \* score 0.80

shadow_score(m) == m.price_ok_rate + m.qty_ok_rate

_gates_pass_noDup(m) ==
    m.cards >= 5 /\ m.price_ok_rate >= 70 /\ m.qty_ok_rate >= 50
_gates_pass(m) ==
    m.cards >= 5 /\ m.price_ok_rate >= 70 /\ m.qty_ok_rate >= 50 /\ m.dup_rate <= 20

\* the condition of the best-challenger loop for one challenger
\* (cm is the challenger_metrics dict: a challenger without an entry is skipped)
Qualifies(cm, id, best_score, base_score) ==
    /\ id \in DOMAIN cm
    /\ shadow_score(cm[id]) > best_score
    /\ shadow_score(cm[id]) - base_score >= PROMOTE_MARGIN
    /\ _gates_pass(cm[id])

\* "Identify best challenger": the loop over challengers, from index i on,
\* carrying (best, best_score)
RECURSIVE BestLoop(_, _, _, _, _, _)
BestLoop(challengers, cm, base_score, i, best, best_score) ==
    IF i > Len(challengers) THEN best
    ELSE IF Qualifies(cm, challengers[i], best_score, base_score)
         THEN BestLoop(challengers, cm, base_score, i + 1,
                       challengers[i], shadow_score(cm[challengers[i]]))
         ELSE BestLoop(challengers, cm, base_score, i + 1, best, best_score)

BestChallenger(challengers, bm, cm) ==
    BestLoop(challengers, cm, shadow_score(bm), 1, None, shadow_score(bm))

\* "Update candidates registry": the registry is rebuilt from the arguments of
\* the call, every entry with wins 0; the loaded registry is not consulted
Registry_keepWins(loaded, baseline, challengers) ==
    [k \in {baseline} \cup RangeOf(challengers) |->
        IF k \in DOMAIN loaded THEN loaded[k] ELSE 0]
Registry(loaded, baseline, challengers) ==
    [k \in {baseline} \cup RangeOf(challengers) |-> 0]

\* the branch "best is not None": increment, promote at REQUIRED_WINS
WinRound(active, reg, best) ==
    LET wins == reg[best] + 1
        reg1 == [reg EXCEPT ![best] = wins]
    IN  IF wins >= REQUIRED_WINS
        THEN [active |-> best,
              candidates |-> [k \in DOMAIN reg1 |-> IF k # best THEN 0 ELSE reg1[k]],
              winner |-> best]
        ELSE [active |-> active, candidates |-> reg1, winner |-> None]

\* the branch "no challenger beat baseline": reset and roll back to baseline
Rollback_keepActive(active, reg, baseline) ==
    [active |-> active,
     candidates |-> [k \in DOMAIN reg |-> IF k # baseline THEN 0 ELSE reg[k]],
     winner |-> baseline]
Rollback(active, reg, baseline) ==
    [active |-> baseline,
     candidates |-> [k \in DOMAIN reg |-> IF k # baseline THEN 0 ELSE reg[k]],
     winner |-> baseline]

\* a challenger with metrics that miss a gate (cards below 5, price-ok rate
\* below 0.70, quantity-ok rate below 0.50, duplicate rate above 0.20) or
\* whose score is less than 0.05 (10 on this scale) above the baseline's
MissesGateOrMargin(id, bm, cm) ==
    /\ id \in DOMAIN cm
    /\ LET m == cm[id]
           s == m.price_ok_rate + m.qty_ok_rate
           b == bm.price_ok_rate + bm.qty_ok_rate
       IN  \/ m.cards < 5
           \/ m.price_ok_rate < 70
           \/ m.qty_ok_rate < 50
           \/ m.dup_rate > 20
           \/ s - b < 10

\* _load_policy: the file's content, or the default when there is no file
_load_policy == policy

maybe_promote(baseline, challengers, bm, cm) ==
    LET loaded == _load_policy
        reg == Registry(loaded.candidates, baseline, challengers)
        best == BestChallenger(challengers, bm, cm)
        out == IF best # None
               THEN WinRound(loaded.active, reg, best)
               ELSE Rollback(loaded.active, reg, baseline)
    IN  /\ pol_round < MaxRounds
        /\ policy' = [active |-> out.active, candidates |-> out.candidates]
        /\ pol_winner' = IF out.winner = None THEN baseline ELSE out.winner
        /\ pol_best' = best
        /\ pol_prev_best' = pol_best
        /\ pol_baseline' = baseline
        /\ pol_failed' = {id \in RangeOf(challengers) : MissesGateOrMargin(id, bm, cm)}
        /\ pol_round' = pol_round + 1
        /\ UNCHANGED notPol

PolicyRound ==
    \E baseline \in BaselineIds, challengers \in ChallengerLists,
       bm \in BaselineMetricsSet :
    \E have \in SUBSET ChallengerIds : \E cm \in [have -> MetricsSet] :
        maybe_promote(baseline, challengers, bm, cm)

InitPolicy ==
    /\ policy = [active |-> None, candidates |-> [k \in {} |-> 0]]
    /\ pol_round = 0
    /\ pol_winner = None
    /\ pol_best = None
    /\ pol_prev_best = None
    /\ pol_baseline = None
    /\ pol_failed = {}


(***************************************************************************)
(* ArchiveLadder                                                           *)
(***************************************************************************)
DEFAULT_PRIORITY ==
    <<"wayback", "ghost", "memento", "arquivo", "ukwa", "archivetoday", "perma">>

\* the keys of FETCHERS
FETCHERS == {"wayback", "archivetoday", "ghost", "memento", "arquivo", "ukwa", "perma"}

DEFAULT_LIMIT == 6

\* str.lower() on the provider names that occur in the priority lists
Lower(p) ==
    CASE p = "WAYBACK" -> "wayback"
      [] p = "Ghost" -> "ghost"
      [] OTHER -> p

\* priority lists a caller or retailers.csv may supply (<<>>: not supplied)
PriorityArgs ==
    { <<>>,
      <<"bogus">>,
      <<"Ghost", "wayback">>,
      <<"WAYBACK", "bogus", "wayback", "memento", "ghost">>,
      <<"perma", "wayback", "ghost", "memento", "arquivo", "ukwa", "archivetoday">> }
\* what read_retailer_archive_overrides returns: the csv list or the global one
PriorityCsv == { DEFAULT_PRIORITY, <<"arquivo", "perma", "ukwa">> }

\* prefer_archive arguments (None, True, False) and retailers.csv values
PreferArgs == {"None", "true", "false"}

\* prefer = bool(prefer_archive if prefer_archive is not None else prefer_csv)
Prefer(prefer_archive, prefer_csv) ==
    IF prefer_archive # "None" THEN prefer_archive = "true" ELSE prefer_csv

\* what a provider's endpoint answers: a failure, a 2xx response with an empty
\* body, a 2xx page whose text is only white space, or a 2xx page with content
Outcomes == {"fail", "empty", "blank", "html"}

\* html values: None, the empty string, only white space, a page
NoHtml == "None"
Htmls == {NoHtml, "", " ", "<html>"}

\* str.strip() on the html values
Strip(html) == IF html = " " THEN "" ELSE html

\* _result(): ok = 200 <= status < 400 and bool(html)
_result_okByStatus(source, url, status, html, reason) ==
    [ok |-> (200 <= status /\ status < 400),
     source |-> source, url |-> url, status |-> status, html |-> html, reason |-> reason]
_result(source, url, status, html, reason) ==
    [ok |-> (200 <= status /\ status < 400 /\ html \notin {NoHtml, ""}),
     source |-> source, url |-> url, status |-> status, html |-> html, reason |-> reason]

\* stands for None where a result is expected
NoResult == [ok |-> FALSE, source |-> None, url |-> <<None, "url">>, status |-> 0, html |-> NoHtml,
             reason |-> None]

\* the URL a provider's result carries (its API, probe or snapshot URL)
ProviderUrl(name) == <<name, "url">>
TargetUrl == <<"target", "url">>

\* FETCHERS[name](target_url, timeout): perma is a stub that never has content
Fetch(name, outcome) ==
    IF name = "perma" THEN _result("perma", TargetUrl, 501, NoHtml, "not_implemented")
    ELSE IF outcome[name] = "fail"
         THEN _result(name, ProviderUrl(name), 404, NoHtml, "no_snapshot")
    ELSE IF outcome[name] = "empty"
         THEN _result(name, ProviderUrl(name), 200, "", "ok")
    ELSE IF outcome[name] = "blank"
         THEN _result(name, ProviderUrl(name), 200, " ", "ok")
    ELSE _result(name, ProviderUrl(name), 200, "<html>", "ok")

\* [p.lower() for p in (priority or pri_csv or DEFAULT_PRIORITY)]
RawOrder(priority, pri_csv) ==
    LET src == IF priority # <<>> THEN priority
               ELSE IF pri_csv # <<>> THEN pri_csv ELSE DEFAULT_PRIORITY
    IN  [i \in 1..Len(src) |-> Lower(src[i])]

\* "Cap order to known providers; de-dup while preserving order"
RECURSIVE KnownDedup(_, _, _)
KnownDedup(order, i, seen) ==
    IF i > Len(order) THEN <<>>
    ELSE IF order[i] \in FETCHERS /\ order[i] \notin seen
         THEN <<order[i]>> \o KnownDedup(order, i + 1, seen \cup {order[i]})
         ELSE KnownDedup(order, i + 1, seen)

EffectiveOrder_noDedup(priority, pri_csv) ==
    SelectSeq(RawOrder(priority, pri_csv), LAMBDA n : n \in FETCHERS)
EffectiveOrder(priority, pri_csv) == KnownDedup(RawOrder(priority, pri_csv), 1, {})

Max(a, b) == IF a >= b THEN a ELSE b
Min(a, b) == IF a <= b THEN a ELSE b

\* order[: max(1, limit)]
Limited(order, limit) == SubSeq(order, 1, Min(Len(order), Max(1, limit)))

\* res.ok and (res.html or "").strip()
Usable(res) == res.ok /\ Strip(IF res.html = NoHtml THEN "" ELSE res.html) # ""

\* entry of try_archives_for up to the head of the for loop
LadderStart ==
    /\ lad_pc = "idle"
    /\ \E priority \in PriorityArgs, pri_csv \in PriorityCsv,
          prefer_archive \in PreferArgs, prefer_csv \in BOOLEAN,
          outcome \in [FETCHERS \ {"perma"} -> Outcomes] :
        /\ lad_args' = [priority |-> priority, pri_csv |-> pri_csv,
                        prefer |-> Prefer(prefer_archive, prefer_csv)]
        /\ lad_full' = EffectiveOrder(priority, pri_csv)
        /\ lad_order' = Limited(EffectiveOrder(priority, pri_csv), DEFAULT_LIMIT)
        /\ lad_outcome' = outcome
    /\ lad_pc' = "loop"
    /\ lad_i' = 1
    /\ lad_attempts' = <<>>
    /\ lad_best' = NoResult
    /\ lad_html' = NoResult
    /\ UNCHANGED notLad

\* one iteration of the loop: call the provider, log the attempt, return on
\* the first usable result
LadderTry ==
    /\ lad_pc = "loop"
    /\ lad_i <= Len(lad_order)
    /\ LET res == Fetch(lad_order[lad_i], lad_outcome)
       IN  /\ lad_attempts' = Append(lad_attempts, res)
           /\ IF Usable(res)
              THEN lad_best' = res /\ lad_pc' = "done"
              ELSE lad_best' = lad_best /\ lad_pc' = "loop"
    /\ lad_i' = lad_i + 1
    /\ UNCHANGED <<lad_order, lad_full, lad_outcome, lad_args, lad_html>>
    /\ UNCHANGED notLad

\* the loop is exhausted: return (None, attempts)
LadderExhausted ==
    /\ lad_pc = "loop"
    /\ lad_i > Len(lad_order)
    /\ lad_pc' = "done"
    /\ UNCHANGED <<lad_order, lad_full, lad_outcome, lad_i, lad_attempts, lad_best,
                   lad_args, lad_html>>
    /\ UNCHANGED notLad

\* the reason of the consolidated failure: f"all_failed; last={last.reason}"
AllFailed(reason) == [fmt |-> "all_failed; last={}", arg |-> reason]

\* archive_fetch_html after its try_archives_for call returned
archive_fetch_html_keepHtml(best, attempts) ==
    IF best # NoResult THEN best
    ELSE IF attempts # <<>>
         THEN LET last == attempts[Len(attempts)]
              IN  _result(last.source, last.url, last.status, last.html, AllFailed(last.reason))
         ELSE _result("archives", TargetUrl, 599, NoHtml, "no_providers_or_attempts")
archive_fetch_html(best, attempts) ==
    IF best # NoResult THEN best
    ELSE IF attempts # <<>>
         THEN LET last == attempts[Len(attempts)]
              IN  _result(last.source, last.url, last.status, NoHtml, AllFailed(last.reason))
         ELSE _result("archives", TargetUrl, 599, NoHtml, "no_providers_or_attempts")

\* the call was made through archive_fetch_html, which now returns
LadderFetchHtml ==
    /\ lad_pc = "done"
    /\ lad_html' = archive_fetch_html(lad_best, lad_attempts)
    /\ lad_pc' = "fetched"
    /\ UNCHANGED <<lad_order, lad_full, lad_outcome, lad_i, lad_attempts, lad_best,
                   lad_args>>
    /\ UNCHANGED notLad

InitLadder ==
    /\ lad_pc = "idle"
    /\ lad_order = <<>>
    /\ lad_full = <<>>
    /\ lad_outcome = [p \in FETCHERS \ {"perma"} |-> "fail"]
    /\ lad_i = 1
    /\ lad_attempts = <<>>
    /\ lad_best = NoResult
    /\ lad_args = [priority |-> <<>>, pri_csv |-> DEFAULT_PRIORITY, prefer |-> FALSE]
    /\ lad_html = NoResult

NextLadder == LadderStart \/ LadderTry \/ LadderExhausted \/ LadderFetchHtml

\* index of the first provider of the effective order whose result is usable
\* (0 if there is none)
FirstUsable(order, outcome) ==
    IF \E k \in 1..Len(order) : Usable(Fetch(order[k], outcome))
    THEN CHOOSE k \in 1..Len(order) :
            /\ Usable(Fetch(order[k], outcome))
            /\ \A j \in 1..(k - 1) : ~Usable(Fetch(order[j], outcome))
    ELSE 0

\* C3: the call returns the result of the first provider of the effective
\* order whose result is ok with non-blank content, and the attempt list is
\* exactly the results of the providers up to and including that one.
C3_FirstUsableReturned ==
    (lad_pc = "done" /\ FirstUsable(lad_full, lad_outcome) > 0)
        => LET k == FirstUsable(lad_full, lad_outcome)
           IN  /\ lad_best = Fetch(lad_full[k], lad_outcome)
               /\ lad_attempts = [j \in 1..k |-> Fetch(lad_full[j], lad_outcome)]

(***************************************************************************)
(* BlockerClassifier                                                       *)
(***************************************************************************)
MaxCards == 6
MaxJsonld == 2

\* the values health["why_flip"] takes
WhyFlips == {"", "cookie_wall", "empty_listing", "store_context_failed"}

HealthSignals == [auth_redirect : BOOLEAN, cf_detected : BOOLEAN, why_flip : WhyFlips]

should_flip_to_archive_cookieFirst(health, card_count, jsonld_count) ==
    IF health.why_flip = "cookie_wall" /\ card_count = 0 /\ jsonld_count = 0
    THEN "cookie_wall"
    ELSE IF health.auth_redirect THEN "auth_redirect"
    ELSE IF health.cf_detected THEN "cf_challenge"
    ELSE IF health.why_flip = "store_context_failed" THEN "store_context_failed"
    ELSE IF card_count < 5 /\ jsonld_count = 0 THEN "too_few_cards"
    ELSE None
should_flip_to_archive(health, card_count, jsonld_count) ==
    IF health.auth_redirect THEN "auth_redirect"
    ELSE IF health.cf_detected THEN "cf_challenge"
    ELSE IF health.why_flip = "cookie_wall" /\ card_count = 0 /\ jsonld_count = 0
    THEN "cookie_wall"
    ELSE IF health.why_flip = "store_context_failed" THEN "store_context_failed"
    ELSE IF card_count < 5 /\ jsonld_count = 0 THEN "too_few_cards"
    ELSE None

\* a call of the classifier on some signals
FlipClassify ==
    /\ \E h \in HealthSignals, c \in 0..MaxCards, j \in 0..MaxJsonld :
        /\ flip_health' = h
        /\ flip_cards' = c
        /\ flip_jsonld' = j
        /\ flip_verdict' = should_flip_to_archive(h, c, j)
    /\ UNCHANGED notFlip

InitFlip ==
    /\ flip_health = [auth_redirect |-> FALSE, cf_detected |-> FALSE, why_flip |-> ""]
    /\ flip_cards = 0
    /\ flip_jsonld = 0
    /\ flip_verdict = "unset"

NextFlip == FlipClassify

\* C4: the verdict is the first match in the order auth_redirect,
\* cf_challenge, cookie_wall (only with zero items and zero products),
\* store_context_failed, too_few_cards (fewer than 5 items and zero
\* products), otherwise None; it is a function of the given signals alone.
C4_FirstMatchWins ==
    flip_verdict # "unset" =>
        LET auth   == flip_health.auth_redirect
            cf     == flip_health.cf_detected
            cookie == flip_health.why_flip = "cookie_wall"
                        /\ flip_cards = 0 /\ flip_jsonld = 0
            store  == flip_health.why_flip = "store_context_failed"
            few    == flip_cards < 5 /\ flip_jsonld = 0
        IN  /\ auth => flip_verdict = "auth_redirect"
            /\ (~auth /\ cf) => flip_verdict = "cf_challenge"
            /\ (~auth /\ ~cf /\ cookie) => flip_verdict = "cookie_wall"
            /\ (~auth /\ ~cf /\ ~cookie /\ store) => flip_verdict = "store_context_failed"
            /\ (~auth /\ ~cf /\ ~cookie /\ ~store /\ few) => flip_verdict = "too_few_cards"
            /\ (~auth /\ ~cf /\ ~cookie /\ ~store /\ ~few) => flip_verdict = None

\* signals that match both the auth redirect and the cookie wall
C4_Witness ==
    /\ flip_health.auth_redirect
    /\ flip_health.why_flip = "cookie_wall" /\ flip_cards = 0 /\ flip_jsonld = 0
    /\ flip_verdict = "auth_redirect"

(***************************************************************************)
(* PaginationTracker                                                       *)
(***************************************************************************)
MaxBatchLen == 2
MaxBatches == 4

\* product keys; "" is the empty key that add_batch skips
Keys == {"", "k1", "k2", "k3"}

RECURSIVE SeqsUpTo(_, _)
SeqsUpTo(S, n) ==
    IF n = 0 THEN {<<>>}
    ELSE LET shorter == SeqsUpTo(S, n - 1)
         IN  shorter \cup {Append(q, x) : q \in shorter, x \in S}

Batches == SeqsUpTo(Keys, MaxBatchLen)

MinGrowths == {1, 2}
MaxStallsSet == {1, 2}

\* PagerTracker.add_batch: the new seen set, the new stall count, the result
add_batch_countEmpty(seen, stalls, min_growth, product_keys) ==
    LET after == seen \cup RangeOf(product_keys)
        growth == Cardinality(after) - Cardinality(seen)
    IN  IF growth < min_growth
        THEN [seen |-> after, stalls |-> stalls + 1, grew |-> FALSE]
        ELSE [seen |-> after, stalls |-> 0, grew |-> TRUE]
add_batch(seen, stalls, min_growth, product_keys) ==
    LET after == seen \cup {k \in RangeOf(product_keys) : k # ""}
        growth == Cardinality(after) - Cardinality(seen)
    IN  IF growth < min_growth
        THEN [seen |-> after, stalls |-> stalls + 1, grew |-> FALSE]
        ELSE [seen |-> after, stalls |-> 0, grew |-> TRUE]

\* PagerTracker.should_stop
should_stop(stalls, max_stalls) == stalls >= max_stalls

\* PagerTracker.__init__
PagerCreate ==
    /\ pt_rets = <<>>
    /\ \E g \in MinGrowths, m \in MaxStallsSet :
        /\ pt_min_growth' = g
        /\ pt_max_stalls' = m
    /\ pt_seen' = {}
    /\ pt_stalls' = 0
    /\ UNCHANGED <<pt_rets, pt_grew, pt_fed>>
    /\ UNCHANGED notPt

PagerAddBatch ==
    /\ Len(pt_rets) < MaxBatches
    /\ \E keys \in Batches :
        LET r == add_batch(pt_seen, pt_stalls, pt_min_growth, keys)
            fresh == {k \in RangeOf(keys) : k # "" /\ k \notin pt_seen}
        IN  /\ pt_seen' = r.seen
            /\ pt_stalls' = r.stalls
            /\ pt_rets' = Append(pt_rets, r.grew)
            /\ pt_grew' = Append(pt_grew, Cardinality(fresh) >= pt_min_growth)
            /\ pt_fed' = pt_fed \cup {k \in RangeOf(keys) : k # ""}
    /\ UNCHANGED <<pt_min_growth, pt_max_stalls>>
    /\ UNCHANGED notPt

InitPager ==
    /\ pt_seen = {}
    /\ pt_stalls = 0
    /\ pt_min_growth = 1
    /\ pt_max_stalls = 1
    /\ pt_rets = <<>>
    /\ pt_grew = <<>>
    /\ pt_fed = {}

NextPager == PagerCreate \/ PagerAddBatch

\* number of FALSE entries at the end of a sequence of booleans
RECURSIVE TrailingFalse(_)
TrailingFalse(h) ==
    IF h = <<>> \/ h[Len(h)] THEN 0
    ELSE 1 + TrailingFalse(SubSeq(h, 1, Len(h) - 1))

\* C5: add_batch returns true exactly for the batches that add at least
\* min_growth previously unseen non-empty keys; stalls is the number of
\* consecutive non-growing batches since the last growing one; should_stop()
\* is true exactly when that number is at least max_stalls; no key that was
\* added is ever missing from seen.
C5_TrackerCounts ==
    /\ pt_rets = pt_grew
    /\ pt_stalls = TrailingFalse(pt_grew)
    /\ should_stop(pt_stalls, pt_max_stalls) <=> (TrailingFalse(pt_grew) >= pt_max_stalls)
    /\ pt_fed \subseteq pt_seen

\* growth, then max_stalls stalls in a row (one of them a batch holding only
\* the empty key and already seen keys), with the tracker now saying stop
C5_Witness ==
    /\ Len(pt_rets) >= 3
    /\ pt_rets[1]
    /\ ~pt_rets[Len(pt_rets)]
    /\ pt_max_stalls = 2
    /\ pt_stalls = 2
    /\ should_stop(pt_stalls, pt_max_stalls)
    /\ pt_seen # {}

(***************************************************************************)
(* AH and Jumbo page walks                                                 *)
(***************************************************************************)
MaxPages == 3

\* the product keys of the oil rows one listing page yields (a sha1 hex
\* digest is never empty)
PageBatches == SeqsUpTo(Keys \ {""}, MaxBatchLen)

\* tracker = PagerTracker(min_growth=1, max_stalls=1)
WALK_MIN_GROWTH == 1
WALK_MAX_STALLS == 1

WalkStart ==
    /\ walk_pc = "idle"
    /\ \E kind \in {"ah", "jumbo"}, ok \in BOOLEAN, mp \in 1..MaxPages :
        /\ walk_kind' = kind
        /\ walk_guard_ok' = ok
        /\ walk_max_pages' = mp
        /\ walk_pc' = IF kind = "ah" THEN "first" ELSE "loop"
        /\ walk_pn' = IF kind = "ah" THEN 1 ELSE 0
    /\ walk_rows' = <<>>
    /\ walk_seen' = {}
    /\ walk_stalls' = 0
    /\ walk_batches' = 0
    /\ walk_navs' = 0
    /\ UNCHANGED notWalk

\* AH page 1: guard_or_raise, goto, collect, tracker.add_batch; the result of
\* add_batch is not looked at
AhFirstPage ==
    /\ walk_kind = "ah" /\ walk_pc = "first"
    /\ \/ /\ ~walk_guard_ok                  \* guard_or_raise raises
          /\ walk_pc' = "raised"
          /\ UNCHANGED <<walk_pn, walk_rows, walk_seen, walk_stalls, walk_batches, walk_navs>>
       \/ /\ walk_guard_ok                   \* page.goto raises
          /\ walk_pc' = "raised"
          /\ UNCHANGED <<walk_pn, walk_rows, walk_seen, walk_stalls, walk_batches, walk_navs>>
       \/ /\ walk_guard_ok
          /\ \E batch \in PageBatches :
                LET r == add_batch(walk_seen, walk_stalls, WALK_MIN_GROWTH, batch)
                IN  /\ walk_rows' = batch
                    /\ walk_seen' = r.seen
                    /\ walk_stalls' = r.stalls
          /\ walk_batches' = walk_batches + 1
          /\ walk_navs' = walk_navs + 1
          /\ walk_pn' = 2
          /\ walk_pc' = "loop"
    /\ UNCHANGED <<walk_kind, walk_guard_ok, walk_max_pages>>
    /\ UNCHANGED notWalk

\* one iteration of "for pn in range(2, max_pages + 1)"
AhNextPage ==
    /\ walk_kind = "ah" /\ walk_pc = "loop"
    /\ walk_pn <= walk_max_pages
    /\ \/ /\ ~walk_guard_ok                  \* guard_url(u) denies: break
          /\ walk_pc' = "returned"
          /\ UNCHANGED <<walk_pn, walk_rows, walk_seen, walk_stalls, walk_batches, walk_navs>>
       \/ /\ walk_guard_ok                   \* page.goto raises: break
          /\ walk_pc' = "returned"
          /\ UNCHANGED <<walk_pn, walk_rows, walk_seen, walk_stalls, walk_batches, walk_navs>>
       \/ /\ walk_guard_ok
          /\ \E batch \in PageBatches :
                LET r == add_batch(walk_seen, walk_stalls, WALK_MIN_GROWTH, batch)
                IN  /\ walk_rows' = walk_rows \o batch
                    /\ walk_seen' = r.seen
                    /\ walk_stalls' = r.stalls
                    /\ IF ~r.grew /\ should_stop(r.stalls, WALK_MAX_STALLS)
                       THEN walk_pc' = "returned" /\ walk_pn' = walk_pn
                       ELSE walk_pc' = "loop" /\ walk_pn' = walk_pn + 1
          /\ walk_batches' = walk_batches + 1
          /\ walk_navs' = walk_navs + 1
    /\ UNCHANGED <<walk_kind, walk_guard_ok, walk_max_pages>>
    /\ UNCHANGED notWalk

\* one iteration of "for _ in range(max_pages)"
JumboNextPage ==
    /\ walk_kind = "jumbo" /\ walk_pc = "loop"
    /\ walk_pn < walk_max_pages
    /\ \/ /\ ~walk_guard_ok                  \* guard_url(u) denies: break
          /\ walk_pc' = "returned"
          /\ UNCHANGED <<walk_pn, walk_rows, walk_seen, walk_stalls, walk_batches, walk_navs>>
       \/ /\ walk_guard_ok                   \* page.goto raises: break
          /\ walk_pc' = "returned"
          /\ UNCHANGED <<walk_pn, walk_rows, walk_seen, walk_stalls, walk_batches, walk_navs>>
       \/ /\ walk_guard_ok
          /\ \E batch \in PageBatches :
                LET r == add_batch(walk_seen, walk_stalls, WALK_MIN_GROWTH, batch)
                IN  /\ walk_rows' = walk_rows \o batch
                    /\ walk_seen' = r.seen
                    /\ walk_stalls' = r.stalls
                    /\ IF ~r.grew /\ should_stop(r.stalls, WALK_MAX_STALLS)
                       THEN walk_pc' = "returned" /\ walk_pn' = walk_pn
                       ELSE walk_pc' = "loop" /\ walk_pn' = walk_pn + 1
          /\ walk_batches' = walk_batches + 1
          /\ walk_navs' = walk_navs + 1
    /\ UNCHANGED <<walk_kind, walk_guard_ok, walk_max_pages>>
    /\ UNCHANGED notWalk

\* the for loop is exhausted: return rows
WalkLoopEnd ==
    /\ walk_pc = "loop"
    /\ IF walk_kind = "ah" THEN walk_pn > walk_max_pages ELSE walk_pn >= walk_max_pages
    /\ walk_pc' = "returned"
    /\ UNCHANGED <<walk_kind, walk_guard_ok, walk_max_pages, walk_pn, walk_rows,
                   walk_seen, walk_stalls, walk_batches, walk_navs>>
    /\ UNCHANGED notWalk

InitWalk ==
    /\ walk_kind = "ah"
    /\ walk_pc = "idle"
    /\ walk_guard_ok = TRUE
    /\ walk_max_pages = 1
    /\ walk_pn = 0
    /\ walk_rows = <<>>
    /\ walk_seen = {}
    /\ walk_stalls = 0
    /\ walk_batches = 0
    /\ walk_navs = 0

NextWalk == WalkStart \/ AhFirstPage \/ AhNextPage \/ JumboNextPage \/ WalkLoopEnd

\* C6: once the tracker says stop after a batch has been added (the batch of
\* the first page included), the walk navigates no further listing page.
C6_NoPageAfterStop ==
    [][(walk_batches >= 1 /\ should_stop(walk_stalls, WALK_MAX_STALLS))
            => walk_navs' = walk_navs]_vars

(***************************************************************************)
(* run_one                                                                 *)
(***************************************************************************)
RetailerCodes == {"ah_nl", "colruyt_be"}

\* guard_ok: guard_url(target_url)[0]
RunConfigs ==
    [code : RetailerCodes, archive_first : BOOLEAN, live_only : BOOLEAN, guard_ok : BOOLEAN]

\* a Row; origin is not a field of Row: it records which path produced the row
Row(name, qty, price, url, sel, mode, stale, origin) ==
    [product_name |-> name, quantity |-> qty, price_eur |-> price, source_url |-> url,
     selector_used |-> sel, mode |-> mode, stale |-> stale, origin |-> origin]

\* str.strip().lower() on the strings that occur in rows
StripLower(str) ==
    CASE str = "Oil A" -> "oil a"
      [] str = "oil a " -> "oil a"
      [] str = "Oil B" -> "oil b"
      [] str = "Oil C" -> "oil c"
      [] str = "Oil D" -> "oil d"
      [] str = "Oil E" -> "oil e"
      [] str = "Oil F" -> "oil f"
      [] str = "Oil G" -> "oil g"
      [] str = "Oil H" -> "oil h"
      [] str = "1L" -> "1l"
      [] str = "U1" -> "u1"
      [] OTHER -> str

\* _product_key: sha1 of the joined normalized fields (sha1 taken as injective)
_product_key_raw(name, qty, url, price) == <<name, qty, url, price>>
_product_key(name, qty, url, price) ==
    <<StripLower(name), StripLower(qty), StripLower(url), price>>

RowKey(r) == _product_key(r.product_name, r.quantity, r.source_url, r.price_eur)

\* the deduplication loop: seen set, uniq list, first occurrence kept
RECURSIVE DedupeLoop(_, _, _)
DedupeLoop(rows, i, seen) ==
    IF i > Len(rows) THEN <<>>
    ELSE IF RowKey(rows[i]) \in seen
         THEN DedupeLoop(rows, i + 1, seen)
         ELSE <<rows[i]>> \o DedupeLoop(rows, i + 1, seen \cup {RowKey(rows[i])})

Dedupe(rows) == DedupeLoop(rows, 1, {})

\* rows built from the live page: mode "live", stale False
LiveRow(name, qty, url, sel) == Row(name, qty, 5, url, sel, "live", FALSE, "live")

\* parse_listing_html_static(..., stale): mode is "archive" if stale else "live"
StaticRow_live(name, qty, url, sel, stale, origin) ==
    Row(name, qty, 5, url, sel, "live", stale, origin)
StaticRow(name, qty, url, sel, stale, origin) ==
    Row(name, qty, 5, url, sel, IF stale THEN "archive" ELSE "live", stale, origin)

\* what the pagers / the listing JSON-LD can yield as batch_rows
LiveBatches ==
    { <<>>,
      <<LiveRow("Oil A", "1l", "u1", "jsonld"), LiveRow("Oil B", "1l", "u1", "jsonld"),
        LiveRow("oil a ", "1L", "U1", "jsonld")>>,
      <<LiveRow("Oil A", "1l", "u1", "jsonld"), LiveRow("Oil B", "1l", "u1", "jsonld"),
        LiveRow("Oil C", "1l", "u1", "jsonld"), LiveRow("Oil D", "1l", "u1", "jsonld"),
        LiveRow("Oil E", "1l", "u1", "jsonld")>> }

\* what _archive_listing_attempt can return (it parses with stale=True)
ArchiveListings ==
    { <<>>,
      <<StaticRow("Oil A", "1l", "u1", "jsonld", TRUE, "ladder"),
        StaticRow("Oil F", "1l", "U1", "archive_listing", TRUE, "ladder")>> }

\* the in-page fallbacks and the live PDP walk
NextjsRows == { <<>>, <<LiveRow("Oil B", "1l", "u1", "nextjs")>> }
DatalayerRows == { <<>>, <<LiveRow("Oil G", "", "u1", "datalayer")>> }
CssRows == { <<>>, <<LiveRow("Oil C", "1l", "u1", "css_card")>> }
PdpRows == { <<>>, <<LiveRow("Oil H", "1l", "u2", "pdp")>> }

\* archive_pdp_rescue rows as run_one wraps them: mode "archive", stale True
RescueRows ==
    { <<>>, <<Row("Oil A", "1l", 5, "u1", "archive_pdp", "archive", TRUE, "rescue")>> }

\* _reparse_snapshot: parse_listing_html_static(..., stale=True)
SnapshotRows ==
    { <<>>, <<StaticRow("Oil F", "1l", "u1", "snapshot_listing", TRUE, "snapshot")>> }

CardCounts == {0, 5}
JsonldCounts == {0, 1}

\* len([x for x in all_rows if not x.stale])
LiveCount_zero(rows) == 0
LiveCount(rows) == Cardinality({i \in 1..Len(rows) : ~rows[i].stale})

\* "except PWTimeoutError": record the reason, return no rows
TimeoutReturn ==
    /\ run_pc' = "returned"
    /\ run_ret' = "timeout"
    /\ run_rows' = <<>>
    /\ run_health' = [run_health EXCEPT
                        !.why_flip = IF @ # "" THEN @ ELSE "timeout"]

\* an exception other than PWTimeoutError leaves run_one
Raise ==
    /\ run_pc' = "raised"
    /\ UNCHANGED <<run_ret, run_rows, run_health>>

\* the call: its arguments and the state of the unlock stamp on disk
RunStart ==
    /\ run_pc = "idle"
    /\ \E cfg \in RunConfigs, stamp \in BOOLEAN :
        /\ run_cfg' = cfg
        /\ run_stamp' = stamp
    /\ run_pc' = "resolve"
    /\ UNCHANGED <<run_recent_unlock, run_health, run_cards, run_jsonld, run_page_open,
                   run_batch, run_all, run_acc, run_blocker, run_verdict, run_log, run_ret, run_rows>>
    /\ UNCHANGED notRun

\* resolve_retailer navigates the search pages with page.goto
RunResolve ==
    /\ run_pc = "resolve"
    /\ \/ run_pc' = "archive_first" /\ UNCHANGED <<run_ret, run_rows, run_health>>
       \/ TimeoutReturn
       \/ Raise
    /\ UNCHANGED <<run_cfg, run_stamp, run_recent_unlock, run_cards, run_jsonld,
                   run_page_open, run_batch, run_all, run_acc, run_blocker, run_verdict, run_log>>
    /\ UNCHANGED notRun

\* "ARCHIVE-FIRST": guard note, archive attempt, early return when it has rows
RunArchiveFirst ==
    /\ run_pc = "archive_first"
    /\ IF run_cfg.archive_first /\ ~run_cfg.live_only
       THEN \E arch_rows \in ArchiveListings :
            LET h == IF run_cfg.guard_ok THEN run_health
                     ELSE [run_health EXCEPT !.why_flip = "robots_guard"]
            IN  /\ run_health' = h
                /\ run_log' = Append(run_log, "ladder:first")
                /\ IF arch_rows # <<>>
                   THEN /\ run_acc' = arch_rows
                        /\ run_all' = Dedupe(arch_rows)
                        /\ run_rows' = Dedupe(arch_rows)
                        /\ run_ret' = "archive_first"
                        /\ run_pc' = "returned"
                   ELSE /\ run_pc' = "entry"
                        /\ UNCHANGED <<run_acc, run_all, run_rows, run_ret>>
       ELSE /\ run_pc' = "entry"
            /\ UNCHANGED <<run_health, run_log, run_acc, run_all, run_rows, run_ret>>
    /\ UNCHANGED <<run_cfg, run_stamp, run_recent_unlock, run_cards, run_jsonld,
                   run_page_open, run_batch, run_blocker, run_verdict>>
    /\ UNCHANGED notRun

\* pre-warm (its errors are swallowed), site entry with the request guard and
\* the pager or the scroll walk, then listing.html and the screenshot
RunEntry ==
    /\ run_pc = "entry"
    /\ \/ /\ ~run_cfg.guard_ok               \* guard_or_raise(target_url)
          /\ Raise
          /\ UNCHANGED run_batch
       \/ /\ run_cfg.guard_ok                \* page.goto: navigation error
          /\ Raise
          /\ UNCHANGED run_batch
       \/ /\ run_cfg.guard_ok                \* page.goto: navigation timeout
          /\ TimeoutReturn
          /\ UNCHANGED run_batch
       \/ /\ run_cfg.guard_ok
          /\ \E b \in LiveBatches : run_batch' = b
          /\ run_pc' = "detect"
          /\ UNCHANGED <<run_ret, run_rows, run_health>>
    /\ UNCHANGED <<run_cfg, run_stamp, run_recent_unlock, run_cards, run_jsonld,
                   run_page_open, run_all, run_acc, run_blocker, run_verdict, run_log>>
    /\ UNCHANGED notRun


\* what the detectors and the counters read off the page
Signals ==
    [auth : BOOLEAN, cf : BOOLEAN, cookie : BOOLEAN, cards : CardCounts, jsonld : JsonldCounts]

\* detect_empty_listing
detect_empty_listing(card_count) == card_count < 5

\* why_flip after "if detect_cookie_wall: ... if detect_empty_listing: ..."
WhyAfter(why0, cookie, card_count) ==
    LET w1 == IF cookie THEN "cookie_wall" ELSE why0
    IN  IF detect_empty_listing(card_count) /\ w1 = "" THEN "empty_listing" ELSE w1

\* the re-detection after a cookie click or an unlock: flags are assigned,
\* why_flip is rebuilt from ""
Redetect(sig) ==
    [auth_redirect |-> sig.auth, cf_detected |-> sig.cf,
     why_flip |-> WhyAfter("", sig.cookie, sig.cards)]

\* "blockers": the flags are only ever set here, why_flip keeps an earlier value
RunDetect ==
    /\ run_pc = "detect"
    /\ \E sig \in Signals :
        /\ run_health' = [auth_redirect |-> run_health.auth_redirect \/ sig.auth,
                          cf_detected |-> run_health.cf_detected \/ sig.cf,
                          why_flip |-> WhyAfter(run_health.why_flip, sig.cookie, sig.cards)]
        /\ run_cards' = sig.cards
        /\ run_jsonld' = sig.jsonld
    /\ run_recent_unlock' = run_stamp          \* _unlock_recent(ret.code, hours=12)
    /\ run_pc' = "store"
    /\ UNCHANGED <<run_cfg, run_stamp, run_page_open, run_batch, run_all, run_acc,
                   run_blocker, run_verdict, run_log, run_ret, run_rows>>
    /\ UNCHANGED notRun

\* "Colruyt: select store if empty": after a successful selection the listing
\* is loaded again and the two counts are read again
RunStore ==
    /\ run_pc = "store"
    /\ \/ /\ run_pc' = "cookie"              \* not Colruyt, enough cards, marker
          /\ UNCHANGED <<run_cards, run_jsonld, run_ret, run_rows, run_health>>
       \/ /\ run_cards < 5 /\ run_cfg.code = "colruyt_be"
          /\ \/ \E c \in CardCounts, j \in JsonldCounts :
                    /\ run_cards' = c
                    /\ run_jsonld' = j
                    /\ run_pc' = "cookie"
                    /\ UNCHANGED <<run_ret, run_rows, run_health>>
             \/ TimeoutReturn /\ UNCHANGED <<run_cards, run_jsonld>>
             \/ Raise /\ UNCHANGED <<run_cards, run_jsonld>>
    /\ UNCHANGED <<run_cfg, run_stamp, run_recent_unlock, run_page_open, run_batch,
                   run_all, run_acc, run_blocker, run_verdict, run_log>>
    /\ UNCHANGED notRun

\* "Try to clear cookie wall programmatically"
RunCookie ==
    /\ run_pc = "cookie"
    /\ \/ /\ UNCHANGED <<run_health, run_cards, run_jsonld>>   \* no wall, or no click
       \/ /\ run_health.why_flip = "cookie_wall" /\ run_cards = 0 /\ run_jsonld = 0
          /\ \E sig \in Signals :             \* aggressive_accept_cookies clicked
                /\ run_health' = Redetect(sig)
                /\ run_cards' = sig.cards
                /\ run_jsonld' = sig.jsonld
    /\ run_pc' = "unlock"
    /\ UNCHANGED <<run_cfg, run_stamp, run_recent_unlock, run_page_open, run_batch,
                   run_all, run_acc, run_blocker, run_verdict, run_log, run_ret, run_rows>>
    /\ UNCHANGED notRun

Blocker_noCookie(health, card_count, jsonld_count) ==
    health.auth_redirect \/ health.cf_detected
Blocker(health, card_count, jsonld_count) ==
    \/ health.auth_redirect
    \/ health.cf_detected
    \/ (health.why_flip = "cookie_wall" /\ card_count = 0 /\ jsonld_count = 0)

ShouldUnlock_noCooldown(blocker, recent_unlock) == blocker
ShouldUnlock(blocker, recent_unlock) == blocker /\ ~recent_unlock

\* where control goes once the "Unlock once, else archive" block is left, by
\* its end or by the "except Exception: pass" around it: the early flip
AfterUnlockBlock_again == "unlock"
AfterUnlockBlock == "flip"

\* "Unlock once, else archive": the whole block is inside try/except Exception.
\* On the unlock branch the run records the unlock, shuts its context down and
\* calls operator_unlock, which either fails before its prompt or blocks on
\* input() until the operator presses ENTER.
RunUnlock ==
    /\ run_pc = "unlock"
    /\ LET blocker == Blocker(run_health, run_cards, run_jsonld)
           should_unlock == ShouldUnlock(blocker, run_recent_unlock)
       IN  /\ run_blocker' = blocker
           /\ run_verdict' = should_flip_to_archive(run_health, run_cards, run_jsonld)
           /\ IF blocker /\ ~should_unlock
              THEN /\ run_health' = [run_health EXCEPT !.why_flip =
                            IF @ # "" THEN @
                            ELSE IF run_health.cf_detected THEN "cf_challenge"
                                 ELSE "cookie_wall"]
                   /\ run_pc' = "flip"
                   /\ UNCHANGED <<run_stamp, run_log, run_page_open>>
              ELSE IF blocker /\ should_unlock
              THEN /\ run_stamp' = TRUE                       \* _record_unlock
                   /\ run_log' = Append(run_log, "operator_unlock")
                   /\ run_page_open' = FALSE                  \* shutdown()
                   /\ run_pc' \in {"operator_wait", AfterUnlockBlock}   \* prompt shown / launch raised
                   /\ UNCHANGED run_health
              ELSE /\ run_pc' = "flip"
                   /\ UNCHANGED <<run_health, run_stamp, run_log, run_page_open>>
    /\ UNCHANGED <<run_cfg, run_recent_unlock, run_batch, run_all, run_acc,
                   run_ret, run_rows, run_cards, run_jsonld>>
    /\ UNCHANGED notRun

\* the operator presses ENTER (or the shell is non-interactive and input()
\* raises EOFError): operator_unlock returns and the run reopens its context,
\* navigates again and re-detects
RunOperatorDone ==
    /\ run_pc = "operator_wait"
    /\ LET returned == Append(run_log, "operator_returned")
       IN  \/ /\ run_page_open' = FALSE        \* reopening the context raised
              /\ run_log' = returned
              /\ UNCHANGED <<run_health, run_cards, run_jsonld>>
           \/ /\ run_page_open' = TRUE         \* guard_or_raise or page.goto raised
              /\ run_log' = returned
              /\ UNCHANGED <<run_health, run_cards, run_jsonld>>
           \/ /\ run_page_open' = TRUE         \* a step between goto and the detectors raised
              /\ run_log' = Append(returned, "renavigate")
              /\ UNCHANGED <<run_health, run_cards, run_jsonld>>
           \/ /\ run_page_open' = TRUE
              /\ run_log' = Append(Append(returned, "renavigate"), "reclassify")
              /\ \E sig \in Signals :
                     /\ run_health' = Redetect(sig)
                     /\ run_cards' = sig.cards
                     /\ run_jsonld' = sig.jsonld
    /\ run_pc' = AfterUnlockBlock
    /\ UNCHANGED <<run_cfg, run_stamp, run_recent_unlock, run_batch, run_all, run_acc,
                   run_blocker, run_verdict, run_ret, run_rows>>
    /\ UNCHANGED notRun

\* "Early flip to archives if still weak"
RunFlip ==
    /\ run_pc = "flip"
    /\ IF ~run_cfg.live_only
          /\ should_flip_to_archive(run_health, run_cards, run_jsonld) # None
       THEN /\ run_log' = Append(run_log, "ladder:flip")
            /\ \E arch_rows \in ArchiveListings :
                /\ run_all' = run_all \o arch_rows
                /\ run_acc' = run_all \o arch_rows
       ELSE UNCHANGED <<run_log, run_all, run_acc>>
    /\ run_pc' = "merge"
    /\ UNCHANGED <<run_cfg, run_stamp, run_recent_unlock, run_health, run_cards,
                   run_jsonld, run_page_open, run_batch, run_blocker, run_verdict, run_ret, run_rows>>
    /\ UNCHANGED notRun

\* _collect_pdp_links_quick(page), then "Merge batch_rows": every merged row
\* is rebuilt with stale=False
RunMerge ==
    /\ run_pc = "merge"
    /\ IF ~run_page_open
       THEN Raise /\ UNCHANGED <<run_all, run_acc>>           \* the page is closed
       ELSE /\ run_all' = run_all \o run_batch
            /\ run_acc' = run_all \o run_batch
            /\ run_pc' = "nextjs"
            /\ UNCHANGED <<run_ret, run_rows, run_health>>
    /\ UNCHANGED <<run_cfg, run_stamp, run_recent_unlock, run_cards, run_jsonld,
                   run_page_open, run_batch, run_blocker, run_verdict, run_log>>
    /\ UNCHANGED notRun


\* "Next.js payload": runs only while fewer than 5 live rows are held
RunNextjs ==
    /\ run_pc = "nextjs"
    /\ IF LiveCount(run_all) < 5
       THEN \E rows \in NextjsRows :
                /\ run_all' = run_all \o rows
                /\ run_acc' = run_all \o rows
       ELSE UNCHANGED <<run_all, run_acc>>
    /\ run_pc' = "datalayer"
    /\ UNCHANGED <<run_cfg, run_stamp, run_recent_unlock, run_health, run_cards,
                   run_jsonld, run_page_open, run_batch, run_blocker, run_verdict, run_log,
                   run_ret, run_rows>>
    /\ UNCHANGED notRun

\* "dataLayer (best effort)": runs only while fewer than 5 live rows are held
RunDatalayer ==
    /\ run_pc = "datalayer"
    /\ IF LiveCount(run_all) < 5
       THEN \E rows \in DatalayerRows :
                /\ run_all' = run_all \o rows
                /\ run_acc' = run_all \o rows
       ELSE UNCHANGED <<run_all, run_acc>>
    /\ run_pc' = "css"
    /\ UNCHANGED <<run_cfg, run_stamp, run_recent_unlock, run_health, run_cards,
                   run_jsonld, run_page_open, run_batch, run_blocker, run_verdict, run_log,
                   run_ret, run_rows>>
    /\ UNCHANGED notRun

\* css_listing_fallback: runs only while fewer than 5 live rows are held
RunCss ==
    /\ run_pc = "css"
    /\ IF LiveCount(run_all) < 5
       THEN \E rows \in CssRows :
                /\ run_all' = run_all \o rows
                /\ run_acc' = run_all \o rows
       ELSE UNCHANGED <<run_all, run_acc>>
    /\ run_pc' = "pdp"
    /\ UNCHANGED <<run_cfg, run_stamp, run_recent_unlock, run_health, run_cards,
                   run_jsonld, run_page_open, run_batch, run_blocker, run_verdict, run_log,
                   run_ret, run_rows>>
    /\ UNCHANGED notRun

\* "PDP fallback (skip for Colruyt due to robots)": text_content() of a PDP
\* without an h1 times out
RunPdp ==
    /\ run_pc = "pdp"
    /\ IF run_cfg.code # "colruyt_be" /\ LiveCount(run_all) < 5
       THEN \/ \E rows \in PdpRows :
                /\ run_all' = run_all \o rows
                /\ run_acc' = run_all \o rows
                /\ run_pc' = "archive_again"
                /\ UNCHANGED <<run_ret, run_rows, run_health>>
            \/ TimeoutReturn /\ UNCHANGED <<run_all, run_acc>>
       ELSE /\ run_pc' = "archive_again"
            /\ UNCHANGED <<run_all, run_acc, run_ret, run_rows, run_health>>
    /\ UNCHANGED <<run_cfg, run_stamp, run_recent_unlock, run_cards, run_jsonld,
                   run_page_open, run_batch, run_blocker, run_verdict, run_log>>
    /\ UNCHANGED notRun

\* "if still poor": fewer than 5 rows that are not stale
StillPoor_always(rows) == TRUE
StillPoor(rows) == LiveCount(rows) < 5

\* "Archive listing fallback again if still poor"
RunArchiveAgain ==
    /\ run_pc = "archive_again"
    /\ IF ~run_cfg.live_only /\ StillPoor(run_all)
       THEN /\ run_log' = Append(run_log, "ladder:again")
            /\ \E arch_rows2 \in ArchiveListings :
                /\ run_all' = run_all \o arch_rows2
                /\ run_acc' = run_all \o arch_rows2
       ELSE UNCHANGED <<run_log, run_all, run_acc>>
    /\ run_pc' = "rescue"
    /\ UNCHANGED <<run_cfg, run_stamp, run_recent_unlock, run_health, run_cards,
                   run_jsonld, run_page_open, run_batch, run_blocker, run_verdict, run_ret, run_rows>>
    /\ UNCHANGED notRun

\* "Archive PDP rescue (Wayback CDX) as last resort": the CDX query is not
\* inside any try block
RunRescue ==
    /\ run_pc = "rescue"
    /\ IF Len(run_all) < 5
       THEN /\ run_log' = Append(run_log, "cdx_rescue")
            /\ \/ \E rows \in RescueRows :
                    /\ run_all' = run_all \o rows
                    /\ run_acc' = run_all \o rows
                    /\ run_pc' = "snapshot"
                    /\ UNCHANGED <<run_ret, run_rows, run_health>>
               \/ Raise /\ UNCHANGED <<run_all, run_acc>>      \* urlopen raised
       ELSE /\ run_pc' = "snapshot"
            /\ UNCHANGED <<run_log, run_all, run_acc, run_ret, run_rows, run_health>>
    /\ UNCHANGED <<run_cfg, run_stamp, run_recent_unlock, run_cards, run_jsonld,
                   run_page_open, run_batch, run_blocker, run_verdict>>
    /\ UNCHANGED notRun

\* "Snapshot sink re-parse"
RunSnapshot ==
    /\ run_pc = "snapshot"
    /\ IF Len(run_all) < 5
       THEN /\ run_log' = Append(run_log, "snapshot")
            /\ \E rows \in SnapshotRows :
                /\ run_all' = run_all \o rows
                /\ run_acc' = run_all \o rows
       ELSE UNCHANGED <<run_log, run_all, run_acc>>
    /\ run_pc' = "dedupe"
    /\ UNCHANGED <<run_cfg, run_stamp, run_recent_unlock, run_health, run_cards,
                   run_jsonld, run_page_open, run_batch, run_blocker, run_verdict, run_ret, run_rows>>
    /\ UNCHANGED notRun

\* "Deduplicate", persist, write the artifacts, return
RunDedupe ==
    /\ run_pc = "dedupe"
    /\ run_all' = Dedupe(run_all)
    /\ run_rows' = Dedupe(run_all)
    /\ run_ret' = "normal"
    /\ run_pc' = "returned"
    /\ UNCHANGED <<run_cfg, run_stamp, run_recent_unlock, run_health, run_cards,
                   run_jsonld, run_page_open, run_batch, run_acc, run_blocker, run_verdict, run_log>>
    /\ UNCHANGED notRun

InitRun ==
    /\ run_pc = "idle"
    /\ run_cfg = [code |-> "ah_nl", archive_first |-> FALSE, live_only |-> FALSE,
                  guard_ok |-> TRUE]
    /\ run_stamp = FALSE
    /\ run_recent_unlock = FALSE
    /\ run_health = [auth_redirect |-> FALSE, cf_detected |-> FALSE, why_flip |-> ""]
    /\ run_cards = 0
    /\ run_jsonld = 0
    /\ run_page_open = TRUE
    /\ run_batch = <<>>
    /\ run_all = <<>>
    /\ run_acc = <<>>
    /\ run_blocker = FALSE
    /\ run_verdict = "unset"
    /\ run_log = <<>>
    /\ run_ret = "none"
    /\ run_rows = <<>>

NextRun ==
    \/ RunStart \/ RunResolve \/ RunArchiveFirst \/ RunEntry \/ RunDetect
    \/ RunStore \/ RunCookie \/ RunUnlock \/ RunOperatorDone \/ RunFlip \/ RunMerge
    \/ RunNextjs \/ RunDatalayer \/ RunCss \/ RunPdp \/ RunArchiveAgain
    \/ RunRescue \/ RunSnapshot \/ RunDedupe

(***************************************************************************)
(* RateLimitedGateway (src/eopt/net_gateway.py)                            *)
(* Time is counted in ticks of one sleep increment (time.sleep(0.3));      *)
(* tokens are counted in units of 1/TokenScale token, and the bucket       *)
(* refills RefillPerTick units per tick (rps * 0.3 s of a token).          *)
(***************************************************************************)
MaxTime == 3
MaxCalls == 2
burst == 1

TokenScale == 2
RefillPerTick == 1
PolicyBudget == 3
NoStatus == 0

Callers == {"t1", "t2"}
GwUrls == {"https://shop/open", "https://shop/private"}
OriginOf(url) == "https://shop"
Origins == {OriginOf(u) : u \in GwUrls}

\* what robots.txt of the origin says about a URL when it can be read
Disallowed(url) == url = "https://shop/private"

\* state of a RobotFileParser after read(): the file was parsed; a 4xx made
\* it allow_all; a 401/403 made it disallow_all; read() raised or got a 5xx
\* and last_checked was never set
RobotsStates == {"parsed", "allow_all", "disallow_all", "unread"}

\* RobotFileParser.can_fetch
can_fetch(r, url) ==
    IF r = "disallow_all" THEN FALSE
    ELSE IF r = "allow_all" THEN TRUE
    ELSE IF r = "unread" THEN FALSE
    ELSE ~Disallowed(url)

\* budget_s arguments: None, or a number of ticks
BudgetArgs == {[given |-> FALSE, val |-> 0]} \cup {[given |-> TRUE, val |-> v] : v \in 0..1}

\* bud = budget_s or self.p.budget_s
EffectiveBudget(arg) == IF arg.given /\ arg.val # 0 THEN arg.val ELSE PolicyBudget

Responses == {200, 403, 429, 500}

HardStop_only429(status) == status = 429
HardStop(status) == status \in {403, 429}

WhyHttp(status) == IF status = 403 THEN "http_403" ELSE "http_429"

\* what self._client.get can raise: httpx.ConnectError, httpx.ReadTimeout
ClientErrors == {"ConnectError", "ReadTimeout"}

\* "except httpx.HTTPError": both classes derive from it
CaughtAsHTTPError_noTimeout(e) == e = "ConnectError"
CaughtAsHTTPError(e) == e \in ClientErrors

\* f"http_error:{type(e).__name__}"
WhyError(e) == IF e = "ConnectError" THEN "http_error:ConnectError"
               ELSE "http_error:ReadTimeout"

CallerIdle ==
    [pc |-> "idle", url |-> "https://shop/open", arg |-> [given |-> FALSE, val |-> 0],
     start |-> 0, bud |-> PolicyBudget, wake |-> 0,
     ok |-> FALSE, status |-> NoStatus, why |-> None, ret |-> "none",
     takes |-> 0, reqs |-> 0, hard |-> FALSE, err |-> None]

GwFlags0 ==
    [req_disallowed |-> FALSE,   \* a request went to a URL the cached policy disallows
     req_without_take |-> FALSE, \* a request was issued by a caller holding no token
     req_after_hard |-> FALSE,   \* a request followed a 403/429 in the same call
     late_attempt |-> FALSE]     \* the loop was entered after the given budget elapsed

\* _Bucket.take under the lock: refill, then grant one token if one is there
take_noSubtract(tokens, last, now) ==
    LET t == Min(burst * TokenScale, tokens + (now - last) * RefillPerTick)
    IN  [tokens |-> t, last |-> now, granted |-> t >= TokenScale]
take(tokens, last, now) ==
    LET t == Min(burst * TokenScale, tokens + (now - last) * RefillPerTick)
    IN  IF t >= TokenScale
        THEN [tokens |-> t - TokenScale, last |-> now, granted |-> TRUE]
        ELSE [tokens |-> t, last |-> now, granted |-> FALSE]

\* the decision of _robots_allowed once the parser r of the origin is at hand
_robots_allowed_always(respect, r, url) == TRUE
_robots_allowed(respect, r, url) == IF ~respect THEN TRUE ELSE can_fetch(r, url)

\* get_text returns: its locals start, bud and budget_s are gone, the caller
\* holds the result and meta
Returned(rec) ==
    [rec EXCEPT !.pc = "done", !.arg = CallerIdle.arg, !.start = 0,
                !.bud = CallerIdle.bud, !.wake = 0]

\* get_text after _robots_allowed returned: deny at once or enter the loop
AfterRobots(rec, allowed) ==
    IF allowed THEN [rec EXCEPT !.pc = "loop"]
    ELSE Returned([rec EXCEPT !.why = "robots_disallow", !.ret = "None"])

\* lines 81-85: the return after the loop
AfterLoop(rec) ==
    Returned([rec EXCEPT !.ret = "None",
                         !.why = IF @ = None THEN "budget_exhausted" ELSE @])

\* get_text is called: start, bud and meta are set and _robots_allowed looks
\* the origin up in the cache
GwCall(c) ==
    /\ gw_up
    /\ gw_c[c].pc \in {"idle", "done"}
    /\ gw_calls < MaxCalls
    /\ gw_calls' = gw_calls + 1
    /\ \E url \in GwUrls, arg \in BudgetArgs :
        LET rec == [CallerIdle EXCEPT !.url = url, !.arg = arg, !.start = gw_now,
                                      !.bud = EffectiveBudget(arg)]
            o == OriginOf(url)
        IN  gw_c' = [gw_c EXCEPT ![c] =
                IF ~gw_respect THEN AfterRobots(rec, _robots_allowed(gw_respect, "unread", url))
                ELSE IF o \in DOMAIN gw_cache
                     THEN AfterRobots(rec, _robots_allowed(gw_respect, gw_cache[o], url))
                     ELSE [rec EXCEPT !.pc = "robots_read"]]
    /\ UNCHANGED <<gw_up, gw_respect, gw_robots, gw_now, gw_tokens, gw_last, gw_cache,
                   gw_fetches, gw_grant_at, gw_req_at, gw_flags>>
    /\ UNCHANGED notGw

\* r.read() on a cache miss, then the parser is stored and asked
GwRobotsRead(c) ==
    /\ gw_c[c].pc = "robots_read"
    /\ LET o == OriginOf(gw_c[c].url)
           r == gw_robots[o]
       IN  /\ gw_cache' = [x \in (DOMAIN gw_cache) \cup {o} |->
                                IF x = o THEN r ELSE gw_cache[x]]
           /\ gw_fetches' = [gw_fetches EXCEPT ![o] = @ + 1]
           /\ gw_c' = [gw_c EXCEPT ![c] =
                        AfterRobots(@, _robots_allowed(gw_respect, r, gw_c[c].url))]
    /\ UNCHANGED <<gw_up, gw_calls, gw_respect, gw_robots, gw_now, gw_tokens, gw_last,
                   gw_grant_at, gw_req_at, gw_flags>>
    /\ UNCHANGED notGw

\* the loop condition and self.bucket.take()
GwLoop(c) ==
    /\ gw_c[c].pc = "loop"
    /\ LET rec == gw_c[c]
       IN  IF gw_now - rec.start < rec.bud
           THEN LET b == take(gw_tokens, gw_last, gw_now)
                IN  /\ gw_tokens' = b.tokens
                    /\ gw_last' = b.last
                    /\ gw_flags' = [gw_flags EXCEPT !.late_attempt =
                            @ \/ (rec.arg.given /\ gw_now - rec.start >= rec.arg.val)]
                    /\ IF b.granted
                       THEN /\ gw_c' = [gw_c EXCEPT ![c].pc = "request", ![c].takes = @ + 1]
                            /\ gw_grant_at' = [gw_grant_at EXCEPT ![gw_now] = @ + 1]
                       ELSE /\ gw_c' = [gw_c EXCEPT ![c].pc = "sleep", ![c].wake = gw_now + 1]
                            /\ UNCHANGED gw_grant_at
           ELSE /\ gw_c' = [gw_c EXCEPT ![c] = AfterLoop(rec)]
                /\ UNCHANGED <<gw_tokens, gw_last, gw_flags, gw_grant_at>>
    /\ UNCHANGED <<gw_up, gw_calls, gw_respect, gw_robots, gw_now, gw_cache, gw_fetches, gw_req_at>>
    /\ UNCHANGED notGw

\* self._client.get(url) and the handling of its response or HTTPError
GwRequest(c) ==
    /\ gw_c[c].pc = "request"
    /\ LET rec == gw_c[c]
           o == OriginOf(rec.url)
           sent == [rec EXCEPT !.reqs = @ + 1]
       IN  /\ gw_req_at' = [gw_req_at EXCEPT ![gw_now] = @ + 1]
           /\ gw_flags' = [gw_flags EXCEPT
                !.req_disallowed = @ \/ (o \in DOMAIN gw_cache /\ ~can_fetch(gw_cache[o], rec.url)),
                !.req_without_take = @ \/ (rec.takes <= rec.reqs),
                !.req_after_hard = @ \/ rec.hard]
           /\ \/ \E status \in Responses :
                    gw_c' = [gw_c EXCEPT ![c] =
                        IF status = 200
                        THEN Returned([sent EXCEPT !.status = 200, !.ok = TRUE,
                                                   !.ret = "text"])
                        ELSE IF HardStop(status)
                        THEN AfterLoop([sent EXCEPT !.status = status, !.hard = TRUE,
                                                    !.why = WhyHttp(status)])
                        ELSE [sent EXCEPT !.status = status, !.pc = "sleep",
                                          !.hard = @ \/ (status \in {403, 429}),
                                          !.wake = gw_now + 1]]
              \/ \E e \in ClientErrors :
                    gw_c' = [gw_c EXCEPT ![c] =
                        IF CaughtAsHTTPError(e)
                        THEN [sent EXCEPT !.why = WhyError(e), !.err = e, !.pc = "sleep",
                                          !.wake = gw_now + 1]
                        ELSE [sent EXCEPT !.err = e, !.pc = "raised"]]
    /\ UNCHANGED <<gw_up, gw_calls, gw_respect, gw_robots, gw_now, gw_tokens, gw_last, gw_cache, gw_fetches,
                   gw_grant_at>>
    /\ UNCHANGED notGw

\* time.sleep(0.3) is over
GwWake(c) ==
    /\ gw_c[c].pc = "sleep"
    /\ gw_now >= gw_c[c].wake
    /\ gw_c' = [gw_c EXCEPT ![c].pc = "loop", ![c].wake = 0]
    /\ UNCHANGED <<gw_up, gw_calls, gw_respect, gw_robots, gw_now, gw_tokens, gw_last, gw_cache, gw_fetches,
                   gw_grant_at, gw_req_at, gw_flags>>
    /\ UNCHANGED notGw

\* the monotonic clock advances
GwTick ==
    /\ gw_up
    /\ gw_now < MaxTime
    /\ gw_now' = gw_now + 1
    /\ UNCHANGED <<gw_up, gw_calls, gw_respect, gw_robots, gw_tokens, gw_last, gw_cache, gw_c, gw_fetches,
                   gw_grant_at, gw_req_at, gw_flags>>
    /\ UNCHANGED notGw

\* NetGateway(policy): the policy's respect_robots is fixed, the bucket is
\* full; what the origins serve as robots.txt is fixed from here on
GwCreate ==
    /\ ~gw_up
    /\ gw_up' = TRUE
    /\ gw_respect' \in BOOLEAN
    /\ gw_robots' \in [Origins -> RobotsStates]
    /\ ~gw_respect' => \A o \in Origins : gw_robots'[o] = "parsed"
    /\ gw_tokens' = burst * TokenScale
    /\ gw_last' = gw_now
    /\ UNCHANGED <<gw_now, gw_cache, gw_c, gw_calls, gw_fetches, gw_grant_at, gw_req_at,
                   gw_flags>>
    /\ UNCHANGED notGw

InitGateway ==
    /\ gw_up = FALSE
    /\ gw_respect = TRUE
    /\ gw_robots = [o \in Origins |-> "parsed"]
    /\ gw_now = 0
    /\ gw_tokens = burst * TokenScale
    /\ gw_last = 0
    /\ gw_cache = <<>>
    /\ gw_c = [c \in Callers |-> CallerIdle]
    /\ gw_calls = 0
    /\ gw_fetches = [o \in Origins |-> 0]
    /\ gw_grant_at = [t \in 0..MaxTime |-> 0]
    /\ gw_req_at = [t \in 0..MaxTime |-> 0]
    /\ gw_flags = GwFlags0

NextGateway ==
    \/ GwCreate
    \/ \E c \in Callers : GwCall(c)
    \/ \E c \in Callers : GwRobotsRead(c)
    \/ \E c \in Callers : GwLoop(c)
    \/ \E c \in Callers : GwRequest(c)
    \/ \E c \in Callers : GwWake(c)
    \/ GwTick

(***************************************************************************)
(* StabilitySampler (finder/core/cdx.py)                                   *)
(* A URL is a record of scheme, host, path, query and fragment; a path is  *)
(* the sequence of the segments between its slashes, where an empty        *)
(* segment stands for a doubled or trailing slash ("/a/b/" is a, b, "").   *)
(***************************************************************************)
MaxSegs == 3

Segments == {"a", "b", ""}
Hosts == {"shop.example", "Shop.Example"}

LowerHost(h) == IF h = "Shop.Example" THEN "shop.example" ELSE h

Url(host, path, query, fragment) ==
    [scheme |-> "https", host |-> host, path |-> path, query |-> query,
     fragment |-> fragment]

CdxUrls ==
    {Url(h, p, q, "") : h \in Hosts, p \in SeqsUpTo(Segments, MaxSegs), q \in {"", "q=1"}}
    \cup {Url("shop.example", <<"a">>, "", "top")}

\* urlunsplit((scheme, netloc.lower(), path, "", ""))
_strip_query_and_fragment(url) == Url(LowerHost(url.host), url.path, "", "")

\* segs = [s for s in sp.path.split("/") if s]
NonEmptySegs_keepAll(path) == path
NonEmptySegs(path) == SelectSeq(path, LAMBDA seg : seg # "")

\* the URL, each parent path, the site root
_parent_urls(url) ==
    LET sp == _strip_query_and_fragment(url)
        segs == NonEmptySegs(sp.path)
    IN  [k \in 1..(Len(segs) + 1) |->
            Url(sp.host, SubSeq(segs, 1, Len(segs) + 1 - k), "", "")]

\* what one index query can give: a failure of any kind (no response or no
\* JSON; an error status on a response that carries rows), or hits and months
IndexAnswers ==
    {[ok |-> FALSE, hits |-> 0, months |-> 0],
     [ok |-> FALSE, hits |-> 1, months |-> 1],
     [ok |-> TRUE, hits |-> 0, months |-> 0],
     [ok |-> TRUE, hits |-> 1, months |-> 1],
     [ok |-> TRUE, hits |-> 3, months |-> 2],
     [ok |-> TRUE, hits |-> 1, months |-> 0]}

\* wayback_cdx / arquivo_cdx: (total_hits, months), (0, 0) on any failure
cdx_counts_ignoreOk(ans) == [hits |-> ans.hits, months |-> ans.months]
cdx_counts(ans) ==
    IF ans.ok THEN [hits |-> ans.hits, months |-> ans.months]
    ELSE [hits |-> 0, months |-> 0]

Sample(w, a) ==
    [wayback_hits |-> w.hits, wayback_months |-> w.months,
     arquivo_hits |-> a.hits, arquivo_months |-> a.months,
     months_with_snapshots |-> Max(w.months, a.months),
     total_hits |-> w.hits + a.hits]

\* best: the all-zero dict
ZeroSample == Sample([hits |-> 0, months |-> 0], [hits |-> 0, months |-> 0])

CdxStart ==
    /\ cdx_pc = "idle"
    /\ \E url \in CdxUrls :
        /\ cdx_url' = url
        /\ cdx_cands' = _parent_urls(url)
    /\ cdx_i' = 1
    /\ cdx_log' = <<>>
    /\ cdx_result' = ZeroSample
    /\ cdx_pc' = "loop"
    /\ UNCHANGED notCdx

\* one iteration of the for loop: both indexes are asked about the candidate
CdxLevel ==
    /\ cdx_pc = "loop"
    /\ cdx_i <= Len(cdx_cands)
    /\ \E wa \in IndexAnswers, aa \in IndexAnswers :
        LET w == cdx_counts(wa)
            a == cdx_counts(aa)
            months == Max(w.months, a.months)
            hits == w.hits + a.hits
        IN  /\ cdx_log' = Append(cdx_log, [url |-> cdx_cands[cdx_i], w |-> w, a |-> a,
                                              w_ok |-> wa.ok, a_ok |-> aa.ok])
            /\ IF months > 0 \/ hits > 0
               THEN /\ cdx_result' = Sample(w, a)
                    /\ cdx_pc' = "done"
                    /\ UNCHANGED cdx_i
               ELSE /\ cdx_i' = cdx_i + 1
                    /\ UNCHANGED <<cdx_result, cdx_pc>>
    /\ UNCHANGED <<cdx_url, cdx_cands>>
    /\ UNCHANGED notCdx

\* the loop ran out of candidates: return best
CdxExhausted ==
    /\ cdx_pc = "loop"
    /\ cdx_i > Len(cdx_cands)
    /\ cdx_result' = ZeroSample
    /\ cdx_pc' = "done"
    /\ UNCHANGED <<cdx_url, cdx_cands, cdx_i, cdx_log>>
    /\ UNCHANGED notCdx

InitCdx ==
    /\ cdx_pc = "idle"
    /\ cdx_url = Url("shop.example", <<>>, "", "")
    /\ cdx_cands = <<>>
    /\ cdx_i = 1
    /\ cdx_log = <<>>
    /\ cdx_result = ZeroSample

NextCdx == CdxStart \/ CdxLevel \/ CdxExhausted

(***************************************************************************)
(* Operator-unlock cooldown over successive runs of one retailer           *)
(* (_unlock_recent, _record_unlock and the unlock decision of run_one)     *)
(***************************************************************************)
MaxClock == 4
MaxUnlocks == 3

TickHours == 6
hours == 12
NoStamp == -1

\* _unlock_recent: no stamp file, or a stat() that raises, is "not recent"
_unlock_recent_strict(stamp, now, stat_ok) ==
    IF stamp = NoStamp THEN FALSE
    ELSE IF ~stat_ok THEN FALSE
    ELSE (now - stamp) * TickHours < hours
_unlock_recent(stamp, now, stat_ok) ==
    IF stamp = NoStamp THEN FALSE
    ELSE IF ~stat_ok THEN FALSE
    ELSE (now - stamp) * TickHours <= hours

\* _record_unlock: write_text sets the mtime; an exception is swallowed
_record_unlock(stamp, now, write_ok) == IF write_ok THEN now ELSE stamp

\* "recent_unlock = _unlock_recent(ret.code, hours=12)" of one run
CdRead ==
    /\ cd_pc = "idle"
    /\ \E blocker \in BOOLEAN, stat_ok \in BOOLEAN :
        /\ cd_blocker' = blocker
        /\ cd_recent' = _unlock_recent(cd_stamp, cd_now, stat_ok)
        /\ cd_read' = (cd_stamp = NoStamp \/ stat_ok)
    /\ cd_pc' = "decide"
    /\ UNCHANGED <<cd_now, cd_stamp, cd_unlocks>>
    /\ UNCHANGED notCd

\* "Unlock once, else archive" of the same run
CdDecide ==
    /\ cd_pc = "decide"
    /\ IF ShouldUnlock(cd_blocker, cd_recent)
       THEN /\ Len(cd_unlocks) < MaxUnlocks
            /\ \E write_ok \in BOOLEAN :
                /\ cd_stamp' = _record_unlock(cd_stamp, cd_now, write_ok)
                /\ cd_unlocks' = Append(cd_unlocks,
                        [at |-> cd_now, stamped |-> write_ok, read |-> cd_read])
       ELSE UNCHANGED <<cd_stamp, cd_unlocks>>
    /\ cd_pc' = "idle"
    /\ UNCHANGED <<cd_now, cd_blocker, cd_recent, cd_read>>
    /\ UNCHANGED notCd

\* time passes
CdTick ==
    /\ cd_now < MaxClock
    /\ cd_now' = cd_now + 1
    /\ UNCHANGED <<cd_stamp, cd_pc, cd_blocker, cd_recent, cd_read, cd_unlocks>>
    /\ UNCHANGED notCd

InitCooldown ==
    /\ cd_now = 0
    /\ cd_stamp = NoStamp
    /\ cd_pc = "idle"
    /\ cd_blocker = FALSE
    /\ cd_recent = FALSE
    /\ cd_read = TRUE
    /\ cd_unlocks = <<>>

NextCooldown == CdRead \/ CdDecide \/ CdTick

(***************************************************************************)
(* The policy file under maybe_promote calls of two workers                *)
(* (_load_policy, the body of maybe_promote, _save_policy)                 *)
(***************************************************************************)
Workers == {"w1", "w2"}

\* a policy file: absent, JSON text of a policy, or text that json.loads
\* rejects (write_text leaves the file empty between open and write)
PolicyFile(state, active, candidates) ==
    [state |-> state, active |-> active, candidates |-> candidates]
NoFile == PolicyFile("missing", None, [k \in {} |-> 0])
NotJson == PolicyFile("garbage", None, [k \in {} |-> 0])
Saved(active, candidates) == PolicyFile("json", active, candidates)

\* {"selectors": {"active": None, "candidates": []}}
DefaultPolicy == [active |-> None, candidates |-> [k \in {} |-> 0]]

StartFiles ==
    { NoFile, NotJson,
      Saved("base", [k \in {"base", "c1"} |-> 0]),
      Saved(None, [k \in {"base", "c1"} |-> IF k = "c1" THEN 1 ELSE 0]) }

\* arguments of a call: one baseline, one challenger, which either has
\* metrics that qualify or has no metrics at all
PromoteArgs ==
    { [baseline |-> "base", challengers |-> <<"c1">>, bm |-> Metrics(5, 60, 50, 20),
       cm |-> [k \in have |-> Metrics(5, 90, 90, 20)]] : have \in {{}, {"c1"}} }

\* json.loads(fp.read_text()) raises on text that is not JSON
LoadRaises(file) == file.state = "garbage"

\* _load_policy when it returns
LoadFile(file) ==
    IF file.state = "missing" THEN DefaultPolicy
    ELSE [active |-> file.active, candidates |-> file.candidates]

\* the body of maybe_promote between _load_policy and _save_policy
PromoteOut(loaded, a) ==
    LET reg == Registry(loaded.candidates, a.baseline, a.challengers)
        best == BestChallenger(a.challengers, a.bm, a.cm)
        out == IF best # None
               THEN WinRound(loaded.active, reg, best)
               ELSE Rollback(loaded.active, reg, a.baseline)
    IN  [active |-> out.active, candidates |-> out.candidates]

WorkerIdle ==
    [pc |-> "idle", args |-> CHOOSE a \in PromoteArgs : a.cm = [k \in {} |-> 0],
     loaded |-> DefaultPolicy, out |-> DefaultPolicy]

\* the file on disk and the arguments of the two calls
PsSetup ==
    /\ ~ps_up
    /\ ps_up' = TRUE
    /\ \E f \in StartFiles :
        /\ ps_file' = f
        /\ ps_file0' = f
    /\ \E args \in [Workers -> PromoteArgs] :
        ps_w' = [w \in Workers |-> [WorkerIdle EXCEPT !.pc = "called", !.args = args[w]]]
    /\ UNCHANGED notPs

\* policy = _load_policy(code), then the body up to the save
PsLoad(w) ==
    /\ ps_up /\ ps_w[w].pc = "called"
    /\ IF LoadRaises(ps_file)
       THEN ps_w' = [ps_w EXCEPT ![w].pc = "raised"]
       ELSE ps_w' = [ps_w EXCEPT ![w].pc = "loaded",
                                 ![w].loaded = LoadFile(ps_file),
                                 ![w].out = PromoteOut(LoadFile(ps_file), ps_w[w].args)]
    /\ UNCHANGED <<ps_up, ps_file, ps_file0>>
    /\ UNCHANGED notPs

\* _save_policy: write_text opens the file for writing, which empties it
PsOpen(w) ==
    /\ ps_up /\ ps_w[w].pc = "loaded"
    /\ ps_file' = NotJson
    /\ ps_w' = [ps_w EXCEPT ![w].pc = "writing"]
    /\ UNCHANGED <<ps_up, ps_file0>>
    /\ UNCHANGED notPs

\* _save_policy: the text is written and the file closed
PsWrite(w) ==
    /\ ps_up /\ ps_w[w].pc = "writing"
    /\ ps_file' = Saved(ps_w[w].out.active, ps_w[w].out.candidates)
    /\ ps_w' = [ps_w EXCEPT ![w].pc = "done"]
    /\ UNCHANGED <<ps_up, ps_file0>>
    /\ UNCHANGED notPs

InitStore ==
    /\ ps_up = FALSE
    /\ ps_file = NoFile
    /\ ps_file0 = NoFile
    /\ ps_w = [w \in Workers |-> WorkerIdle]

NextStore ==
    \/ PsSetup
    \/ \E w \in Workers : PsLoad(w) \/ PsOpen(w) \/ PsWrite(w)

(***************************************************************************)
(* URL normalizers (finder/core/canonicalize.py clean_url and the          *)
(* sampler's _strip_query_and_fragment) on URL text                        *)
(* A URL text is its scheme (the part before ":", "" when there is none),  *)
(* the text between the scheme and the "?" or "#" as a sequence of tokens  *)
(* ("//", "/" and names, slashes read two at a time from the left), the    *)
(* fields of its query, and its fragment.                                  *)
(***************************************************************************)
MaxTokens == 4

UrlText(scheme, rest, query, fragment) ==
    [scheme |-> scheme, rest |-> rest, query |-> query, fragment |-> fragment]

Slashes == {"/", "//"}
Names == {"Shop.Example", "a"}

\* token sequences that are the reading of some text: no two names in a row,
\* and no "/" directly before a slash token ("//" would have been read)
TokenSeqs ==
    { r \in SeqsUpTo(Slashes \cup Names, MaxTokens) :
        \A i \in 1..(Len(r) - 1) :
            /\ ~(r[i] \in Names /\ r[i + 1] \in Names)
            /\ ~(r[i] = "/" /\ r[i + 1] \in Slashes) }

\* a query field "k=v" as written
Field(k, v) == [k |-> k, v |-> v]

QueryTexts ==
    { <<>>,
      <<Field("b", "1"), Field("a", "1 2")>>,
      <<Field("utm_x", "1"), Field("a", "1+2")>>,
      <<Field("a", "2"), Field("UTM_y", "1"), Field("a", "1")>> }

UrlTexts ==
    { UrlText(sc, r, q, f) : sc \in {"", "http"}, r \in TokenSeqs, q \in QueryTexts,
                            f \in {"", "top"} }

\* urlsplit: the netloc is what follows a leading "//" up to the next slash
urlsplit(t) ==
    LET r == t.rest
        lead == r # <<>> /\ r[1] = "//"
        named == lead /\ Len(r) >= 2 /\ r[2] \notin Slashes
    IN  [scheme |-> t.scheme,
         netloc |-> IF named THEN r[2] ELSE "",
         path |-> IF named THEN SubSeq(r, 3, Len(r))
                  ELSE IF lead THEN Tail(r) ELSE r,
         query |-> t.query,
         fragment |-> t.fragment]

\* urlunsplit: "//" and the netloc are written when there is a netloc, or a
\* scheme that uses one and a path that does not itself begin with "//"
urlunsplit(scheme, netloc, path, query, fragment) ==
    LET starts2 == path # <<>> /\ path[1] = "//"
        starts1 == path # <<>> /\ path[1] \in Slashes
        p1 == IF path # <<>> /\ ~starts1 THEN <<"/">> \o path ELSE path
        rest == IF netloc # "" THEN <<"//", netloc>> \o p1
                ELSE IF scheme # "" /\ ~starts2 THEN <<"//">> \o p1
                ELSE path
    IN  UrlText(scheme, rest, query, fragment)

\* unquoting of a query value by parse_qsl, quoting by urlencode
Unquote(v) == IF v = "1+2" THEN "1 2" ELSE v
QuotePlus(v) == IF v = "1 2" THEN "1+2" ELSE v

\* parse_qsl(query, keep_blank_values=True)
parse_qsl(q) == [i \in 1..Len(q) |-> Field(q[i].k, Unquote(q[i].v))]

\* k.lower().startswith("utm_")
IsUtm(k) == k \in {"utm_x", "UTM_y"}

\* the order of str on the keys that occur
KeyRank(k) ==
    CASE k = "UTM_y" -> 1
      [] k = "a" -> 2
      [] k = "b" -> 3
      [] OTHER -> 4

\* sorted(qs, key=lambda kv: kv[0]): stable
RECURSIVE InsertByKey(_, _)
InsertByKey(sorted, f) ==
    IF sorted = <<>> THEN <<f>>
    ELSE IF KeyRank(sorted[Len(sorted)].k) <= KeyRank(f.k) THEN Append(sorted, f)
    ELSE Append(InsertByKey(SubSeq(sorted, 1, Len(sorted) - 1), f), sorted[Len(sorted)])

RECURSIVE SortByKey(_)
SortByKey(q) ==
    IF q = <<>> THEN <<>>
    ELSE InsertByKey(SortByKey(SubSeq(q, 1, Len(q) - 1)), q[Len(q)])

\* urlencode(qs_sorted, doseq=True)
urlencode(qs) == [i \in 1..Len(qs) |-> Field(qs[i].k, QuotePlus(qs[i].v))]

clean_url(url) ==
    LET parts == urlsplit(url)
        host == LowerHost(parts.netloc)
        qs == SelectSeq(parse_qsl(parts.query), LAMBDA f : ~IsUtm(f.k))
        qs_sorted == SortByKey(qs)
    IN  urlunsplit(parts.scheme, host, parts.path, urlencode(qs_sorted), "")

\* the sampler's _strip_query_and_fragment on URL text
StripQueryAndFragment(url) ==
    LET sp == urlsplit(url)
    IN  urlunsplit(sp.scheme, LowerHost(sp.netloc), sp.path, <<>>, "")

Normalizers == {"clean_url", "_strip_query_and_fragment"}

Normalize(fn, url) ==
    IF fn = "clean_url" THEN clean_url(url) ELSE StripQueryAndFragment(url)

CuPick ==
    /\ cu_pc = "idle"
    /\ \E fn \in Normalizers, url \in UrlTexts :
        /\ cu_fn' = fn
        /\ cu_url' = url
    /\ cu_pc' = "picked"
    /\ UNCHANGED <<cu_once, cu_twice>>
    /\ UNCHANGED notCu

CuApply ==
    /\ cu_pc = "picked"
    /\ cu_once' = Normalize(cu_fn, cu_url)
    /\ cu_pc' = "once"
    /\ UNCHANGED <<cu_fn, cu_url, cu_twice>>
    /\ UNCHANGED notCu

CuReapply ==
    /\ cu_pc = "once"
    /\ cu_twice' = Normalize(cu_fn, cu_once)
    /\ cu_pc' = "twice"
    /\ UNCHANGED <<cu_fn, cu_url, cu_once>>
    /\ UNCHANGED notCu

InitCanon ==
    /\ cu_pc = "idle"
    /\ cu_fn = "clean_url"
    /\ cu_url = UrlText("", <<>>, <<>>, "")
    /\ cu_once = UrlText("", <<>>, <<>>, "")
    /\ cu_twice = UrlText("", <<>>, <<>>, "")

NextCanon == CuPick \/ CuApply \/ CuReapply

Init ==
    /\ InitCooldown /\ InitStore /\ InitCanon
    /\ InitPolicy /\ InitLadder /\ InitFlip /\ InitPager /\ InitWalk /\ InitRun
    /\ InitGateway /\ InitCdx

NextPolicy == PolicyRound

SpecPolicy == Init /\ [][NextPolicy]_vars

SpecLadder == Init /\ [][NextLadder]_vars

SpecFlip == Init /\ [][NextFlip]_vars

SpecPager == Init /\ [][NextPager]_vars

SpecWalk == Init /\ [][NextWalk]_vars

SpecRun == Init /\ [][NextRun]_vars

SpecGateway == Init /\ [][NextGateway]_vars

SpecCdx == Init /\ [][NextCdx]_vars

SpecCooldown == Init /\ [][NextCooldown]_vars

SpecStore == Init /\ [][NextStore]_vars

SpecCanon == Init /\ [][NextCanon]_vars

\* every step of run_one itself is eventually taken when it can be; the
\* operator's ENTER is an input of the environment and carries no fairness
RunProgramStep ==
    \/ RunStart \/ RunResolve \/ RunArchiveFirst \/ RunEntry \/ RunDetect
    \/ RunStore \/ RunCookie \/ RunUnlock \/ RunFlip \/ RunMerge
    \/ RunNextjs \/ RunDatalayer \/ RunCss \/ RunPdp \/ RunArchiveAgain
    \/ RunRescue \/ RunSnapshot \/ RunDedupe

SpecRunFair == Init /\ [][NextRun]_vars /\ WF_vars(RunProgramStep)

\* C1: from a policy with no recorded wins, the same best challenger
\* qualifying in two consecutive rounds is the persisted active selector and
\* the returned candidate after the second round.
C1_PromotedAfterTwoWins ==
    (pol_round >= 2 /\ pol_best # None /\ pol_prev_best = pol_best)
        => (policy.active = pol_best /\ pol_winner = pol_best)

\* C2: a round without a qualifying challenger persists the baseline as the
\* active selector, returns the baseline and leaves every win counter at zero.
C2_NoQualifierRollsBack ==
    (pol_round >= 1 /\ pol_best = None)
        => /\ policy.active = pol_baseline
           /\ pol_winner = pol_baseline
           /\ \A k \in DOMAIN policy.candidates : policy.candidates[k] = 0

\* a challenger qualified in the round before and none qualifies in this one
C2_Witness ==
    /\ pol_round >= 2
    /\ pol_prev_best # None
    /\ pol_best = None
    /\ pol_prev_best \in DOMAIN policy.candidates
    /\ policy.candidates[pol_prev_best] = 0
    /\ policy.active = pol_baseline

(***************************************************************************)
(* Properties of run_one                                                   *)
(***************************************************************************)
\* two rows are the same observation: equal normalized name, quantity and
\* source URL, and equal price
SameFingerprint(r1, r2) ==
    /\ StripLower(r1.product_name) = StripLower(r2.product_name)
    /\ StripLower(r1.quantity) = StripLower(r2.quantity)
    /\ StripLower(r1.source_url) = StripLower(r2.source_url)
    /\ r1.price_eur = r2.price_eur

NoTwoSame(rows) ==
    \A i, j \in 1..Len(rows) : (i # j) => ~SameFingerprint(rows[i], rows[j])

\* the rows of a list that have no earlier row with the same fingerprint
IsFirst(rows, i) == \A j \in 1..(i - 1) : ~SameFingerprint(rows[j], rows[i])

RECURSIVE FirstOccurrences(_, _)
FirstOccurrences(rows, i) ==
    IF i > Len(rows) THEN <<>>
    ELSE (IF IsFirst(rows, i) THEN <<rows[i]>> ELSE <<>>) \o FirstOccurrences(rows, i + 1)

InLog(e) == \E i \in 1..Len(run_log) : run_log[i] = e

\* log entries written when an archive source is consulted
ArchiveSources == {"ladder:first", "ladder:flip", "ladder:again", "cdx_rescue", "snapshot"}

\* C8: a blocker (challenge, auth redirect or cookie wall) found while the
\* operator-unlock cooldown is active never leads to operator unlock; unless
\* the run is live-only the archive ladder is called next, and every row of
\* the archive result is stale with mode archive.
C8_CooldownSkipsUnlock ==
    (run_blocker /\ run_recent_unlock) =>
        /\ ~InLog("operator_unlock")
        /\ (~run_cfg.live_only /\ run_pc \notin {"unlock", "flip"}) =>
                InLog("ladder:flip")
        /\ \A i \in 1..Len(run_acc) :
                run_acc[i].origin = "ladder" =>
                    (run_acc[i].stale /\ run_acc[i].mode = "archive")
        /\ \A i \in 1..Len(run_rows) :
                run_rows[i].origin = "ladder" =>
                    (run_rows[i].stale /\ run_rows[i].mode = "archive")

\* a challenge under cooldown whose archive rows are returned
C8_Witness ==
    /\ run_pc = "returned" /\ run_ret = "normal"
    /\ run_blocker /\ run_recent_unlock /\ run_health.cf_detected
    /\ ~InLog("operator_unlock")
    /\ InLog("ladder:flip")
    /\ \E i \in 1..Len(run_rows) : run_rows[i].origin = "ladder"

\* C9: a live-only run consults no archive source (ladder, CDX PDP rescue,
\* stored snapshot) and returns no row that is stale or of mode archive.
C9_LiveOnlyNoArchive ==
    run_cfg.live_only =>
        /\ \A e \in ArchiveSources : ~InLog(e)
        /\ \A i \in 1..Len(run_rows) :
                ~run_rows[i].stale /\ run_rows[i].mode # "archive"

\* C10: run_one never raises to its caller: every run that ends, ends with a
\* returned record.
C10_NeverRaises == run_pc # "raised"

\* C11: a run that has escalated to operator unlock never waits forever on the
\* operator: the wait eventually ends even if the operator never signals
\* completion.
C11_NeverWaitsForever == (run_pc = "operator_wait") ~> (run_pc # "operator_wait")

(***************************************************************************)
(* Properties of the gateway                                               *)
(***************************************************************************)
\* the robots policy the origin serves disallows the URL
PolicyDisallows(r, url) == r = "disallow_all" \/ (r = "parsed" /\ Disallowed(url))

\* a get_text call that is past its robots check for a URL the origin's
\* policy disallows has returned robots_disallow and has drawn nothing
DeniedCallsDrawNothing ==
    \A c \in Callers :
        (gw_c[c].pc \notin {"idle", "robots_read"}
            /\ PolicyDisallows(gw_robots[OriginOf(gw_c[c].url)], gw_c[c].url)) =>
                /\ gw_c[c].pc = "done"
                /\ gw_c[c].ret = "None"
                /\ gw_c[c].why = "robots_disallow"
                /\ ~gw_c[c].ok
                /\ gw_c[c].takes = 0
                /\ gw_c[c].reqs = 0

\* C12 as stated: a URL the origin's robots policy disallows is answered with
\* (None, why = robots_disallow) without a token drawn or a request issued, and
\* no request ever goes to a URL the cached robots policy disallows.
C12_RobotsDisallowNoRequest ==
    /\ DeniedCallsDrawNothing
    /\ ~gw_flags.req_disallowed

\* C12 (amended): on a gateway whose policy has respect_robots set (the
\* default), a URL the origin's robots policy disallows is answered with
\* (None, why = robots_disallow) without a token drawn or a request issued, and
\* no request ever goes to a URL the cached robots policy disallows.
C12_RespectedRobotsNoRequest ==
    gw_respect => (DeniedCallsDrawNothing /\ ~gw_flags.req_disallowed)

RECURSIVE SumOver(_, _, _)
SumOver(f, a, b) == IF a > b THEN 0 ELSE f[a] + SumOver(f, a + 1, b)

\* a disallowed URL was refused while the same gateway served another request
C12_Witness ==
    /\ gw_respect
    /\ \E c \in Callers :
        /\ gw_c[c].pc = "done" /\ gw_c[c].why = "robots_disallow"
        /\ gw_c[c].url = "https://shop/private"
        /\ gw_robots[OriginOf(gw_c[c].url)] = "parsed"
    /\ SumOver(gw_req_at, 0, MaxTime) > 0

\* the count of f over every window [a, b] of ticks is at most
\* burst + rps * (b - a), in token units
RateBounded(f) ==
    \A a \in 0..MaxTime : \A b \in a..MaxTime :
        TokenScale * SumOver(f, a, b) <= burst * TokenScale + RefillPerTick * (b - a)

BucketSound ==
    /\ gw_tokens \in 0..(burst * TokenScale)
    /\ ~gw_flags.req_without_take
    /\ \A c \in Callers : gw_c[c].reqs <= gw_c[c].takes
    \* no token is handed out twice: what was granted plus what is left never
    \* exceeds the initial burst plus the refill so far
    /\ TokenScale * SumOver(gw_grant_at, 0, MaxTime) + gw_tokens
            <= burst * TokenScale + RefillPerTick * gw_last

\* C13 as stated: tokens stay within [0, burst], every request follows a
\* successful take of its own token, and the requests issued in any interval
\* of length T number at most burst + rps * T.
C13_RequestRateBounded == BucketSound /\ RateBounded(gw_req_at)

\* C13 (amended): tokens stay within [0, burst], every request follows a
\* successful take of its own token, a token is granted to at most one
\* caller, the tokens granted in any interval of length T number at most
\* burst + rps * T, and up to any moment the requests issued number at most
\* the tokens granted.
C13_GrantRateBounded ==
    /\ BucketSound
    /\ RateBounded(gw_grant_at)
    /\ \A t \in 0..MaxTime : SumOver(gw_req_at, 0, t) <= SumOver(gw_grant_at, 0, t)

\* two callers asked the empty bucket at the same tick and only one was served
C13_Witness ==
    /\ gw_tokens < TokenScale
    /\ \E c, d \in Callers :
        /\ c # d
        /\ gw_c[c].pc = "request" /\ gw_c[c].takes = 1
        /\ gw_c[d].pc = "sleep" /\ gw_c[d].takes = 0 /\ gw_c[d].wake = gw_now + 1
    /\ gw_last = gw_now

\* C14: once a 403 or 429 is received the call issues no further request and
\* returns (None, meta) with ok false, that status, and why http_403/http_429.
C14_HardStopEndsCall ==
    /\ ~gw_flags.req_after_hard
    /\ \A c \in Callers :
        gw_c[c].hard =>
            /\ gw_c[c].pc = "done"
            /\ gw_c[c].ret = "None"
            /\ ~gw_c[c].ok
            /\ gw_c[c].status \in {403, 429}
            /\ gw_c[c].why = WhyHttp(gw_c[c].status)
            /\ (gw_c[c].status = 403) = (gw_c[c].why = "http_403")

\* one call was ended by a 403 and a later call of the other caller by a 429
C14_Witness ==
    \E c, d \in Callers :
        /\ gw_c[c].hard /\ gw_c[c].pc = "done"
        /\ gw_c[c].status = 429 /\ gw_c[c].why = "http_429" /\ gw_c[c].reqs = 1
        /\ gw_c[d].hard /\ gw_c[d].pc = "done"
        /\ gw_c[d].status = 403 /\ gw_c[d].why = "http_403" /\ gw_c[d].reqs = 1

\* C15: for every budget value passed by the caller, get_text starts no new
\* attempt once that budget has elapsed, and a call that returns no text
\* returns ok false with a non-empty why.
C15_NoAttemptAfterBudget ==
    /\ ~gw_flags.late_attempt
    /\ \A c \in Callers :
        (gw_c[c].pc = "done" /\ gw_c[c].ret = "None") =>
            (~gw_c[c].ok /\ gw_c[c].why # None)

(***************************************************************************)
(* Properties of the sampler                                               *)
(***************************************************************************)
\* the levels of a path: the path itself, then the path with its last
\* segment dropped, and so on down to the root
PathLevels(host, path) ==
    [k \in 1..(Len(path) + 1) |-> Url(host, SubSeq(path, 1, Len(path) + 1 - k), "", "")]

HasSnapshot(e) == e.w.hits > 0 \/ e.a.hits > 0

\* the queries made so far went down the given levels in order, stopped at
\* the first level with a snapshot, and the returned sample is that level's
ClimbedAlong(levels) ==
    /\ Len(cdx_log) <= Len(levels)
    /\ \A i \in 1..Len(cdx_log) : cdx_log[i].url = levels[i]
    /\ \A i \in 1..(Len(cdx_log) - 1) : ~HasSnapshot(cdx_log[i])
    /\ cdx_pc = "done" =>
        IF cdx_log # <<>> /\ HasSnapshot(cdx_log[Len(cdx_log)])
        THEN LET e == cdx_log[Len(cdx_log)]
             IN  /\ cdx_result.wayback_hits = e.w.hits
                 /\ cdx_result.wayback_months = e.w.months
                 /\ cdx_result.arquivo_hits = e.a.hits
                 /\ cdx_result.arquivo_months = e.a.months
                 /\ cdx_result.months_with_snapshots = Max(e.w.months, e.a.months)
                 /\ cdx_result.total_hits = e.w.hits + e.a.hits
        ELSE /\ cdx_result = ZeroSample
             /\ Len(cdx_log) = Len(levels)
             /\ \A i \in 1..Len(cdx_log) : ~HasSnapshot(cdx_log[i])

C17_LastFailureSurfaced ==
    lad_pc = "fetched" =>
        /\ lad_html.ok => (lad_html.html \notin {NoHtml, "", " "})
        /\ (\A i \in 1..Len(lad_attempts) : ~Usable(lad_attempts[i])) =>
            /\ ~lad_html.ok
            /\ lad_html.html = NoHtml
            /\ IF lad_attempts = <<>>
               THEN /\ lad_html.reason = "no_providers_or_attempts"
                    /\ lad_html.source = "archives"
               ELSE LET last == lad_attempts[Len(lad_attempts)]
                    IN  /\ lad_html.source = last.source
                        /\ lad_html.url = last.url
                        /\ lad_html.status = last.status
                        /\ lad_html.reason.arg = last.reason

\* the last provider answered 200 with a page of white space only: the
\* caller gets a failure that carries status 200 and no content
C17_Witness ==
    /\ lad_pc = "fetched"
    /\ Len(lad_attempts) = 2
    /\ lad_attempts[2].source = "wayback" /\ lad_attempts[2].html = " "
    /\ lad_attempts[2].ok
    /\ ~lad_html.ok /\ lad_html.html = NoHtml
    /\ lad_html.source = "wayback" /\ lad_html.status = 200

\* the list the order is taken from: the explicit argument, else the site's
\* configured priority, else the global default
OrderSource ==
    IF lad_args.priority # <<>> THEN lad_args.priority
    ELSE IF lad_args.pri_csv # <<>> THEN lad_args.pri_csv
    ELSE DEFAULT_PRIORITY

\* the provider names of a list, lower-cased, known ones only
KnownNames(list) ==
    {n \in FETCHERS : \E i \in 1..Len(list) : Lower(list[i]) = n}

\* position of the first occurrence of a known name in a list
FirstPos(list, n) == CHOOSE i \in 1..Len(list) :
    /\ Lower(list[i]) = n
    /\ \A j \in 1..(i - 1) : Lower(list[j]) # n

\* C18: the provider order is taken from the explicit priority argument if
\* given, else the site's configured priority, else the global default; it is
\* lower-cased, holds known providers only, each once, in the order of their
\* first occurrence; no provider is called twice and no unknown one is called.
C18_EffectiveOrder ==
    lad_pc # "idle" =>
        /\ RangeOf(lad_full) = KnownNames(OrderSource)
        /\ \A i, j \in 1..Len(lad_full) :
            (i < j) => /\ lad_full[i] # lad_full[j]
                       /\ FirstPos(OrderSource, lad_full[i]) < FirstPos(OrderSource, lad_full[j])
        /\ \A i \in 1..Len(lad_attempts) :
            /\ lad_attempts[i].source \in FETCHERS
            /\ i <= Len(lad_full) /\ lad_attempts[i].source = lad_full[i]
        /\ \A i, j \in 1..Len(lad_attempts) :
            (i # j) => lad_attempts[i].source # lad_attempts[j].source

\* WAYBACK, bogus, wayback, memento, ghost with every provider failing: the
\* calls made are wayback, memento, ghost
C18_Witness ==
    /\ lad_pc = "done"
    /\ lad_args.priority = <<"WAYBACK", "bogus", "wayback", "memento", "ghost">>
    /\ Len(lad_attempts) = 3
    /\ lad_attempts[1].source = "wayback"
    /\ lad_attempts[2].source = "memento"
    /\ lad_attempts[3].source = "ghost"
    /\ lad_best = NoResult

\* the providers named in the site's archive preference
Preferred == KnownNames(lad_args.pri_csv)

\* C19: when archive-first priority is requested (site profile or
\* prefer_archive argument), the providers named in the site's archive
\* preference are tried before every other provider of the effective order.
C19_PreferredTriedFirst ==
    lad_args.prefer =>
        \A i, j \in 1..Len(lad_attempts) :
            (i < j /\ lad_attempts[j].source \in Preferred)
                => lad_attempts[i].source \in Preferred

\* the verdict at the unlock decision, after the cookie-dismissal stage
VerdictAtUnlock == should_flip_to_archive(run_health, run_cards, run_jsonld)

Escalates == run_log' = Append(run_log, "operator_unlock")

\* C20 as stated: whenever the verdict after the cookie-dismissal stage is
\* anything other than None and no operator-unlock cooldown is active, the
\* run escalates to operator unlock.
C20_AnyVerdictEscalates ==
    [][(run_pc = "unlock" /\ VerdictAtUnlock # None /\ ~run_recent_unlock)
            => Escalates]_vars

\* C20 (amended): with no operator-unlock cooldown active, the run escalates
\* to operator unlock exactly when the verdict after the cookie-dismissal
\* stage is auth redirect, challenge or cookie wall; on too-few-cards and on
\* store-context failure it does not escalate.
C20_BlockerVerdictEscalates ==
    [][(run_pc = "unlock" /\ ~run_recent_unlock)
            => (Escalates <=> VerdictAtUnlock \in {"auth_redirect", "cf_challenge", "cookie_wall"})]_vars

\* a cookie wall that survived the dismissal stage was escalated
C20_Witness ==
    /\ run_pc = "operator_wait"
    /\ ~run_recent_unlock
    /\ VerdictAtUnlock = "cookie_wall"
    /\ InLog("operator_unlock")

\* rows held that are not stale, counted on everything accumulated so far
HeldLive == Cardinality({i \in 1..Len(run_acc) : ~run_acc[i].stale})

CountLog(e) == Cardinality({i \in 1..Len(run_log) : run_log[i] = e})

LadderCalls == CountLog("ladder:first") + CountLog("ladder:flip") + CountLog("ladder:again")

C22_LadderOncePerRun ==
    /\ CountLog("operator_unlock") <= 1
    /\ LadderCalls <= 1

\* C22 (amended): within one run operator unlock is attempted at most once
\* and each of the three ladder call sites (archive-first, early flip, "again
\* if still poor") runs at most once, so the ladder is called at most three
\* times, at most twice outside archive-first mode; the "again" call happens
\* only while fewer than 5 live rows are held; an archive-first call that
\* yields rows is the only call of its run.
C22_EachCallSiteOnce ==
    /\ \A e \in ArchiveSources \cup {"operator_unlock"} : CountLog(e) <= 1
    /\ LadderCalls <= 3
    /\ InLog("ladder:first") => (run_cfg.archive_first /\ ~run_cfg.live_only)
    /\ InLog("ladder:again") => (HeldLive < 5 /\ ~run_cfg.live_only)
    /\ run_ret = "archive_first" => run_log = <<"ladder:first">>

\* a run that called the ladder at all three call sites
C22_Witness ==
    /\ run_pc = "returned" /\ run_ret = "normal"
    /\ run_log = <<"ladder:first", "ladder:flip", "ladder:again", "cdx_rescue", "snapshot">>

\* C26: when a challenge is detected and the operator-unlock cooldown
\* suppresses escalation, the returned health record carries the challenge as
\* why_flip (not another reason such as empty_listing) and the archive
\* ladder was called after the decision.
C26_CooldownReportsChallenge ==
    (run_pc = "returned" /\ run_blocker /\ run_recent_unlock /\ run_health.cf_detected)
        => /\ run_health.why_flip = "cf_challenge"
           /\ InLog("ladder:flip")

(***************************************************************************)
(* Further properties of maybe_promote                                     *)
(***************************************************************************)
\* C23: a challenger that fails a gate (cards < 5, price-ok < 0.70,
\* qty-ok < 0.50, dup > 0.20) or whose margin over the baseline is below
\* 0.05 has no win counted in that round, is not made active by that round
\* and is not returned.
C23_FailingChallengerNeverWins ==
    \A id \in pol_failed :
        /\ policy.candidates[id] = 0
        /\ policy.active # id
        /\ pol_winner # id

\* a round in which one challenger won while the other missed a gate or the
\* margin
C23_Witness ==
    /\ pol_round >= 1
    /\ pol_best = "c1"
    /\ policy.candidates["c1"] = 1
    /\ "c2" \in pol_failed
    /\ policy.candidates["c2"] = 0

\* the win counter a policy holds for a candidate (0 when it has none)
WinsIn(p, id) == IF id \in DOMAIN p.candidates THEN p.candidates[id] ELSE 0

\* C24: in every round with a qualifying challenger, the best qualifying
\* challenger's win counter is one more than the value the previous round
\* persisted for it, and every other candidate's counter is zero.
C24_BestWinsIncrement ==
    [][(pol_round' = pol_round + 1 /\ pol_best' # None) =>
            /\ policy'.candidates[pol_best'] = WinsIn(policy, pol_best') + 1
            /\ \A k \in DOMAIN policy'.candidates :
                    k # pol_best' => policy'.candidates[k] = 0]_vars

(***************************************************************************)
(* Properties of the operator-unlock cooldown                              *)
(***************************************************************************)
\* the hours between two unlocks
Gap(i, j) == (cd_unlocks[j].at - cd_unlocks[i].at) * TickHours

\* C25 as stated: over successive runs of a site, after an operator unlock
\* has started no further one starts until more than 12 hours have passed.
C25_UnlocksSpaced ==
    \A i, j \in 1..Len(cd_unlocks) : i < j => Gap(i, j) > hours

\* C25 (amended): after an operator unlock whose stamp was written, no
\* unlock that read the stamp starts until more than 12 hours have passed
\* since the stamp was written; the stamp is never deleted and its time
\* never moves back.
C25_UnlocksSpacedWhenStamped ==
    /\ [](\A i, j \in 1..Len(cd_unlocks) :
            (i < j /\ cd_unlocks[i].stamped /\ cd_unlocks[j].read) => Gap(i, j) > hours)
    /\ [][cd_stamp' >= cd_stamp]_vars

\* a second unlock that read the stamp of the first one and found it aged out
C25_Witness ==
    /\ Len(cd_unlocks) >= 2
    /\ cd_unlocks[1].stamped
    /\ cd_unlocks[2].read /\ cd_unlocks[2].stamped
    /\ cd_stamp = cd_unlocks[2].at

(***************************************************************************)
(* Properties of the persisted stores                                      *)
(***************************************************************************)
\* C28: a persisted selector policy that cannot be parsed makes
\* maybe_promote go on as if there were no prior policy, and an unreadable
\* cooldown stamp makes the run go on as if there were no cooldown; neither
\* aborts the call.
C28_UnreadableStoreIsDefault ==
    \A w \in Workers : ps_w[w].pc # "raised"

\* the policy file after the two calls ran one after the other, first then
\* second, from the file they started with
SeqOutcome(first, second) ==
    LET p1 == PromoteOut(LoadFile(ps_file0), ps_w[first].args)
        p2 == PromoteOut(p1, ps_w[second].args)
    IN  Saved(p2.active, p2.candidates)

\* C29: maybe_promote calls of two workers for the same site are
\* serialized: once both have returned, the persisted policy is what one of
\* the two sequential orders of the calls produces.
C29_PromoteSerialized ==
    (ps_up /\ \A w \in Workers : ps_w[w].pc = "done")
        => ps_file \in {SeqOutcome("w1", "w2"), SeqOutcome("w2", "w1")}

(***************************************************************************)
(* Properties of the URL normalizers                                       *)
(***************************************************************************)
\* C27: clean_url is idempotent, clean_url(clean_url(u)) = clean_url(u), and
\* so is the sampler's normalization (query and fragment stripped, host
\* lowercased).
C27_NormalizersIdempotent ==
    cu_pc = "twice" => cu_twice = cu_once

(***************************************************************************)
(* Further properties of summarize_archives                                *)
(***************************************************************************)
NoCounts == [hits |-> 0, months |-> 0]

\* C30: an index query that fails counts as zero hits and zero months for
\* that level while the other index's counts are still used, and
\* summarize_archives returns a sample: the level's counts when either index
\* has something, the all-zero sample when the levels run out.
C30_FailedIndexCountsZero ==
    /\ cdx_pc \in {"idle", "loop", "done"}
    /\ \A i \in 1..Len(cdx_log) :
            /\ ~cdx_log[i].w_ok => cdx_log[i].w = NoCounts
            /\ ~cdx_log[i].a_ok => cdx_log[i].a = NoCounts
    /\ (cdx_pc = "done" /\ cdx_log # <<>>) =>
            LET e == cdx_log[Len(cdx_log)]
            IN  IF e.w.hits + e.a.hits > 0 \/ e.w.months > 0 \/ e.a.months > 0
                THEN /\ cdx_result.wayback_hits = e.w.hits
                     /\ cdx_result.arquivo_hits = e.a.hits
                     /\ cdx_result.total_hits = e.w.hits + e.a.hits
                     /\ ~e.w_ok => cdx_result.total_hits = e.a.hits
                     /\ ~e.a_ok => cdx_result.total_hits = e.w.hits
                ELSE cdx_result = ZeroSample

\* the Wayback query failed at a level where Arquivo has 3 hits in 2 months:
\* the sample returned is Arquivo's
C30_Witness ==
    /\ cdx_pc = "done"
    /\ cdx_log # <<>>
    /\ ~cdx_log[Len(cdx_log)].w_ok /\ cdx_log[Len(cdx_log)].a_ok
    /\ cdx_log[Len(cdx_log)].a = [hits |-> 3, months |-> 2]
    /\ cdx_result.wayback_hits = 0 /\ cdx_result.wayback_months = 0
    /\ cdx_result.arquivo_hits = 3 /\ cdx_result.total_hits = 3
    /\ cdx_result.months_with_snapshots = 2


\* C31 (as stated): a get_text call in which the HTTP client raised a timeout
\* or a connection failure never lets the exception out, has the error class in
\* meta.why, and ends by returning the failure result (None, ok false).
C31_ClientErrorEndsInFailure ==
    \A c \in Callers :
        gw_c[c].err # None =>
            /\ gw_c[c].pc # "raised"
            /\ gw_c[c].pc = "done" =>
                    /\ gw_c[c].ret = "None" /\ ~gw_c[c].ok
                    /\ gw_c[c].why = WhyError(gw_c[c].err)

\* C31 (amended): the exception never leaves get_text and its class is put in
\* meta.why; the attempt is retried while the budget lasts, and the call returns
\* the failure result unless a retry is answered 200, in which case the text is
\* returned with ok true and meta.why still naming the earlier error; a 403 or
\* 429 answered to a retry replaces meta.why.
C31_ClientErrorNeverPropagates ==
    \A c \in Callers :
        gw_c[c].err # None =>
            /\ gw_c[c].pc # "raised"
            /\ gw_c[c].why # None
            /\ gw_c[c].pc = "sleep" /\ ~gw_c[c].hard => gw_c[c].why = WhyError(gw_c[c].err)
            /\ gw_c[c].pc = "done" =>
                    \/ /\ gw_c[c].ret = "text" /\ gw_c[c].ok /\ gw_c[c].status = 200
                       /\ gw_c[c].why = WhyError(gw_c[c].err)
                    \/ /\ gw_c[c].ret = "None" /\ ~gw_c[c].ok
                       /\ gw_c[c].why = IF gw_c[c].hard THEN WhyHttp(gw_c[c].status)
                                        ELSE WhyError(gw_c[c].err)

\* a call whose first request timed out, was retried, and returned a failure
C31_Witness ==
    \E c \in Callers :
        /\ gw_c[c].err = "ReadTimeout" /\ gw_c[c].reqs >= 2
        /\ gw_c[c].pc = "done" /\ gw_c[c].ret = "None" /\ ~gw_c[c].ok
        /\ gw_c[c].why = "http_error:ReadTimeout"


\* C37: over any interleaving of get_text calls on one gateway, robots.txt of an
\* origin is read at most once.
C37_RobotsFetchedOncePerOrigin ==
    \A o \in Origins : gw_fetches[o] <= 1


\* C32: a candidate id recorded in the persisted selector policy stays in the
\* candidate map after every later maybe_promote round, whether or not that
\* round's challenger list names it.
C32_CandidatesNeverDropped ==
    [][DOMAIN policy.candidates \subseteq DOMAIN policy'.candidates]_vars


\* C33: the operator-unlock stamp is written only after the operator signalled
\* completion: while the run still waits for the operator the stamp it found
\* missing or stale at its start has not been written.
C33_StampOnlyAfterUnlockDone ==
    run_pc = "operator_wait" => ~run_stamp


C35_FailureAfterEveryProvider ==
    (lad_pc = "done" /\ lad_best = NoResult) =>
        /\ Len(lad_attempts) = Len(lad_full)
        /\ \A i \in 1..Len(lad_attempts) : lad_attempts[i].source = lad_full[i]
        /\ lad_full = DEFAULT_PRIORITY =>
                /\ Len(lad_attempts) = 7
                /\ lad_attempts[Len(lad_attempts)].source = "perma"


\* C36: every provider result that is ok has non-empty content and a status
\* from 200 to 399, a result with empty or missing content is never ok, and
\* the best result of try_archives_for is ok with non-blank content.
C36_OkMeansContent ==
    /\ \A i \in 1..Len(lad_attempts) :
            LET res == lad_attempts[i]
            IN  /\ res.ok => /\ res.html \notin {NoHtml, ""}
                             /\ 200 <= res.status /\ res.status < 400
                /\ res.html \in {NoHtml, ""} => ~res.ok
    /\ lad_best # NoResult =>
            /\ lad_best.ok
            /\ lad_best.html \notin {NoHtml, "", " "}
            /\ 200 <= lad_best.status /\ lad_best.status < 400

\* a provider answered 200 with an empty body and was not ok, and a later one
\* gave the best result
C36_Witness ==
    /\ lad_pc = "done"
    /\ lad_best # NoResult /\ lad_best.html = "<html>"
    /\ \E i \in 1..Len(lad_attempts) :
            /\ lad_attempts[i].status = 200 /\ lad_attempts[i].html = ""
            /\ ~lad_attempts[i].ok


\* the rows a run holds and the rows it returns
RunHeldRows == {run_acc[i] : i \in 1..Len(run_acc)} \cup {run_rows[i] : i \in 1..Len(run_rows)}

\* C38: each row that came from the archive ladder, the CDX PDP rescue or the
\* stored snapshot is stale with mode archive, and each row that came from
\* live navigation is not stale and has mode live.
C38_RowsTaggedBySource ==
    \A r \in RunHeldRows :
        /\ r.origin \in {"ladder", "rescue", "snapshot"} => (r.stale /\ r.mode = "archive")
        /\ r.origin = "live" => (~r.stale /\ r.mode = "live")
        /\ r.origin \in {"ladder", "rescue", "snapshot", "live"}

\* a returned result that holds a live row and an archive row
C38_Witness ==
    /\ run_pc = "returned" /\ run_ret = "normal"
    /\ \E i, j \in 1..Len(run_rows) :
            /\ run_rows[i].origin = "live" /\ ~run_rows[i].stale
            /\ run_rows[j].origin \in {"ladder", "snapshot"} /\ run_rows[j].stale


\* C40: when a run that returns normally has observed one fingerprint both live
\* and from an archive source, the returned row with that fingerprint is the
\* live one.
C40_LiveRowWinsDedupe ==
    (run_pc = "returned" /\ run_ret = "normal") =>
        \A i \in 1..Len(run_rows) :
            (\E j \in 1..Len(run_acc) :
                /\ RowKey(run_acc[j]) = RowKey(run_rows[i])
                /\ ~run_acc[j].stale)
            => ~run_rows[i].stale


\* C39: a page walk navigates at most max_pages listing pages, and it stops
\* earlier on a stall: a walk that is still in its loop after a page was
\* collected has a tracker that does not say stop.
C39_WalkBoundedAndStopsOnStall ==
    /\ walk_navs <= walk_max_pages
    /\ (walk_pc = "loop" /\ walk_batches >= 1 /\ walk_navs < walk_max_pages)
            => ~should_stop(walk_stalls, WALK_MAX_STALLS)

====
